---- MODULE Spec2Model ----
(***************************************************************************)
(* Model of the CANopen master's layer engine (canopen_master/layer.h):    *)
(* LayerStatus, VectorHelper::call and LayerStack.                         *)
(*                                                                         *)
(* Iterators of the child vector are modelled as the element addresses    *)
(* they wrap: position i of a non-empty vector is the integer i, end() is   *)
(* nlayers, and a default-constructed iterator (as well as begin()/end()   *)
(* of a vector that never allocated) is the null address NullIt.  A       *)
(* reverse_iterator is modelled by its base: it dereferences base-1.       *)
(*                                                                         *)
(* Two threads drive one LayerStack: "ctl" runs the supervisory commands   *)
(* init / recover / halt / shutdown, "cyc" runs the cycle operations       *)
(* read / write / pending / diag.  Every child call is one step; the       *)
(* child's effect on the status it is handed is a nondeterministic         *)
(* severity of Outcomes.                                                   *)
(***************************************************************************)
EXTENDS Integers, Sequences, FiniteSets, TLC

\* number of children a stack may be set up with
MaxLayers == 3

\* number of children of a stack whose cycle thread runs concurrently
MaxConcLayers == 2

\* LayerStatus::State
OK == 0
WARN == 1
ERROR == 2
STALE == 3
UNBOUNDED == 3

\* a default-constructed vector iterator (null element address)
NullIt == -1

Threads == {"ctl", "cyc"}

\* severities the caller's status may already carry on entry
EntryStates == {OK, WARN, ERROR}

LayerNames == <<"A", "B", "C", "D", "E", "F">>

VARIABLES
    conc,       \* deployment: the cycle thread runs concurrently with the control thread
    nlayers,    \* layers.size(), fixed after setup
    run_end_,   \* LayerStack::run_end_
    segv,       \* the process dereferenced an address outside the vector
    up,         \* per child: brought up successfully and not shut down since
    inited,     \* per child: an init/recover call on it has returned
    down,       \* shutdown has reset run_end_ and no bring-up started since
    op,         \* per thread: the LayerStack operation in progress
    pc,         \* per thread: position in that operation
    status,     \* per thread: the caller's LayerStatus
    status0,    \* per thread: the caller's status on entry
    omit,       \* per thread: the local throwaway LayerStatus
    it,         \* per thread: local iterator `it`
    lend,       \* per thread: local iterator `end` (read/pending/diag), `begin` (write)
    fr,         \* per thread: frame of the VectorHelper::call in progress
    log,        \* per thread: child calls made by the operation in progress
    fst,        \* per thread: caller's status when the first fault was detected
    entDown     \* per thread: value of `down` when the operation was entered

stackVars == <<conc, nlayers, run_end_, segv, up, inited, down, op, pc, status, status0,
               omit, it, lend, fr, log, fst, entDown>>

\* one LayerStatus updated by several threads
VARIABLES
    shared,         \* the LayerStatus object: state and reason_
    write_mutex_,   \* LayerStatus::write_mutex_: the thread holding it, or "free"
    spc,            \* per updating thread: position in LayerStatus::set
    sarg,           \* per updating thread: the arguments (s, r) of its call of set
    scmp,           \* per updating thread: the outcome of its test s > state
    applied         \* the updates whose severity has been applied, in order

statusVars == <<shared, write_mutex_, spc, sarg, scmp, applied>>

\* the Buffer slots of one PDO
VARIABLES
    empty,      \* per buffer: Buffer::empty
    dirty,      \* per buffer: Buffer::dirty
    buffer      \* per buffer: Buffer::buffer, its size bytes

bufVars == <<empty, dirty, buffer>>

\* one RPDO
VARIABLES
    transmission_type,  \* PDO::transmission_type
    timeout,            \* RPDO::timeout
    is_rtr,             \* PDO::frame.is_rtr
    rstatus,            \* the LayerStatus handed to the latest RPDO::sync, as sync left it
    since,              \* RPDO::sync calls since the latest handled frame (or init)
    framed,             \* a frame has been handled since init
    nsync,              \* RPDO::sync calls made
    rtr_sent            \* the latest RPDO::sync handed an RTR request to interface_->send

rpdoVars == <<transmission_type, timeout, is_rtr, rstatus, since, framed, nsync, rtr_sent>>

\* the users of the first Buffer slot: a thread in the blocking
\* Buffer::read(entry, String&) and the callers of the other operations
VARIABLES
    bmutex,     \* Buffer::mutex: "free", or "reader" while the blocking read holds it
    rpc,        \* position of the thread in the blocking read
    rdata,      \* the String the blocking read was handed, as the read left it
    rfault,     \* the exception the blocking read raised, or "none"
    expired,    \* the deadline abs_time of the blocking read has passed
    notified,   \* cond.notify_all() reached the waiting thread
    atExpiry,   \* Buffer::empty at the moment the deadline passed
    called,     \* the latest call of a non-blocking Buffer operation: arguments and results
    lastw,      \* the bytes stored by the latest write, <<>> before the first
    wsince      \* a write occurred since the latest read

slotVars == <<bmutex, rpc, rdata, rfault, expired, notified, atExpiry, called, lastw,
              wsince>>

\* PDO::parse_and_set_mapping on one PDO
VARIABLES
    dict,       \* the object dictionary: what the call reads of the PDO's objects
    pm,         \* the call: position, locals and the frame and buffers it builds
    dev,        \* the device: mapping count (sub 0) and invalid bit of the COB-ID
    wlog        \* the writes to the device made by the call, in order

mapVars == <<dict, pm, dev, wlog>>

\* one TPDO
VARIABLES
    tp,         \* TPDO::sync: position and locals (b_it, updated, len, dest)
    frame,      \* PDO::frame: dlc and data
    tsent,      \* whether the previous and the latest completed sync sent the frame
    fresh,      \* per buffer: written since a sync last copied it
    tdue,       \* the sync in progress has copied a buffer that was fresh
    wmark,      \* a buffer was written since the latest sync began
    wspan,      \* a buffer was written between the begin of the previous sync and
                \* the begin of the latest
    owed        \* per buffer, its latest write: "none", or "written" and no sync has
                \* begun since, or "aged": a sync has begun since, or "copied" by
                \* the sync in progress and not yet sent

tpdoVars == <<tp, frame, tsent, fresh, tdue, wmark, wspan, owed>>

\* the filtered dispatcher of the CAN interface and the listener of one RPDO
VARIABLES
    nreg,       \* listeners created so far for the two counters
    listener_,  \* RPDO::listener_: the header it is registered for, or NoHeader
    rcob,       \* COB-ID of the RPDO in the dictionary
    rnobuf,     \* the mapping of the RPDO yields no buffer
    counter,    \* per delegate: frames it was handed
    ndisp,      \* frames dispatched
    expect,     \* per delegate: frames dispatched with the header of one of its listeners
    plain,      \* every frame dispatched so far had exactly one listener on its header
    rlast       \* header of the latest frame handed to RPDO::handleFrame

dispVars == <<nreg, listener_, rcob, rnobuf, counter, ndisp, expect, plain, rlast>>

\* one call of RPDO::init or TPDO::init
VARIABLES
    pi          \* position, the mapping entries, the buffers made, frame.dlc, the result

initVars == <<pi>>

\* the mutexes of the PDO subsystem and the threads that take them
VARIABLES
    lk,         \* per mutex: the thread that holds it, or "free"
    lth,        \* per thread: the operation it is in, the next step, waiting on cond
    lempty      \* Buffer::empty of the buffer of the RPDO

lockVars == <<lk, lth, lempty>>

\* the variables of the other components
besideStack == <<statusVars, bufVars, rpdoVars, slotVars, mapVars, tpdoVars, dispVars, initVars, lockVars>>

besideStatus == <<stackVars, bufVars, rpdoVars, slotVars, mapVars, tpdoVars, dispVars, initVars, lockVars>>

besideRpdo == <<stackVars, statusVars, slotVars, mapVars, tpdoVars, dispVars, initVars, lockVars>>

besideSlot == <<stackVars, statusVars, rpdoVars, mapVars, tpdoVars, dispVars, initVars, lockVars>>

besideMap == <<stackVars, statusVars, bufVars, rpdoVars, slotVars, tpdoVars, dispVars, initVars, lockVars>>

besideTpdo == <<stackVars, statusVars, rpdoVars, slotVars, mapVars, dispVars, initVars, lockVars>>

besideInit == <<stackVars, statusVars, bufVars, rpdoVars, slotVars, mapVars, tpdoVars, dispVars, lockVars>>

besideLock ==
    <<stackVars, statusVars, bufVars, rpdoVars, slotVars, mapVars, tpdoVars, dispVars, initVars>>

besideDisp == <<stackVars, statusVars, bufVars, rpdoVars, slotVars, mapVars, tpdoVars, initVars, lockVars>>

vars == <<stackVars, statusVars, bufVars, rpdoVars, slotVars, mapVars, tpdoVars, dispVars, initVars, lockVars>>

----------------------------------------------------------------------------
(* LayerStatus *)

\* "; "
Sep == <<";", " ">>

LayerStatus == [state |-> OK, reason |-> <<>>]

\* faulty variant: the reason is appended only by a call that raises the severity
SetReasonOnRaise(s, st, r) ==
    [state  |-> IF st > s.state THEN st ELSE s.state,
     reason |-> IF r # <<>> /\ st > s.state
                THEN (IF s.reason = <<>> THEN r ELSE s.reason \o Sep \o r)
                ELSE s.reason]

set(s, st, r) ==
    [state  |-> IF st > s.state THEN st ELSE s.state,
     reason |-> IF r # <<>>
                THEN (IF s.reason = <<>> THEN r ELSE s.reason \o Sep \o r)
                ELSE s.reason]

bounded(s, T) == s.state <= T

warn(s, r) == set(s, WARN, r)

error(s, r) == set(s, ERROR, r)

stale(s, r) == set(s, STALE, r)

----------------------------------------------------------------------------
(* the child vector and its iterators *)

Begin == IF nlayers = 0 THEN NullIt ELSE 0

End == IF nlayers = 0 THEN NullIt ELSE nlayers

Children == 0 .. (nlayers - 1)

\* severities a child may raise on the status it is handed (OK: it raises none);
\* in the concurrent deployment a child either succeeds or fails
Outcomes == IF conc THEN {OK, ERROR} ELSE {OK, WARN, ERROR}

\* a child layer's operation, handed status s: it raises severity o (with its
\* name as the reason) or leaves the status alone
ChildCall(c, s, o) == IF o = OK THEN s ELSE set(s, o, <<LayerNames[c + 1]>>)

NoFrame == [func |-> "none", bound |-> UNBOUNDED, tgt |-> "status", cur |-> NullIt,
            last |-> NullIt, rev |-> FALSE, okay |-> FALSE, cont |-> "none",
            assign |-> FALSE]

\* entry of VectorHelper::call<Bound>(func, status, begin, end)
CallFrame(func, bound, tgt, s, first, last, rev, cont, assign) ==
    [func |-> func, bound |-> bound, tgt |-> tgt, cur |-> first, last |-> last,
     rev |-> rev, okay |-> bounded(s, bound), cont |-> cont, assign |-> assign]

Deref(f) == IF f.rev THEN f.cur - 1 ELSE f.cur

Advance(f) == IF f.rev THEN f.cur - 1 ELSE f.cur + 1

Target(t, f) == IF f.tgt = "omit" THEN omit[t] ELSE status[t]

----------------------------------------------------------------------------
(* components that take no part in a run *)

\* threads that update the shared LayerStatus
Setters == {"t1", "t2"}

\* no thread updates the shared LayerStatus
StatusOff ==
    /\ shared = LayerStatus
    /\ write_mutex_ = "free"
    /\ spc = [t \in Setters |-> "off"]
    /\ sarg = [t \in Setters |-> <<OK, <<>>>>]
    /\ scmp = [t \in Setters |-> FALSE]
    /\ applied = <<>>

\* number of Buffer slots of the PDO
NumBufs == 2

\* Buffer::size of every slot, in bytes
BufSize == 1

Bufs == 1 .. NumBufs

\* values of a byte
Bytes == {0, 1}

\* Buffer(size): a slab of size bytes (zeroes), empty and clean
NewBuffer == [i \in 1 .. BufSize |-> 0]

\* the PDO has no buffers in use
BuffersOff ==
    /\ empty = [b \in Bufs |-> TRUE]
    /\ dirty = [b \in Bufs |-> FALSE]
    /\ buffer = [b \in Bufs |-> NewBuffer]

\* no RPDO takes part
RpdoOff ==
    /\ transmission_type = 0
    /\ timeout = 0
    /\ is_rtr = FALSE
    /\ rstatus = LayerStatus
    /\ since = 0
    /\ framed = FALSE
    /\ nsync = -1
    /\ rtr_sent = FALSE

\* no call of a non-blocking Buffer operation yet
NoCall == [op |-> "none", dst |-> <<>>, out |-> <<>>, ret |-> FALSE, fault |-> "none",
           stored |-> <<>>, written |-> FALSE]

\* nobody uses the first Buffer slot directly
SlotOff ==
    /\ bmutex = "off"
    /\ rpc = "off"
    /\ rdata = <<>>
    /\ rfault = "none"
    /\ expired = FALSE
    /\ notified = FALSE
    /\ atExpiry = TRUE
    /\ called = NoCall
    /\ lastw = <<>>
    /\ wsince = FALSE

\* the locals of parse_and_set_mapping before the call
NoMapping == [pc |-> "off", map_changed |-> FALSE, com_changed |-> FALSE, sub |-> 0,
              dlc |-> 0, nbuf |-> 0]

\* no PDO is being parsed
MapOff ==
    /\ dict = [map_num |-> 0, map_init |-> <<>>, com_subs |-> 0, cob_invalid |-> FALSE]
    /\ pm = NoMapping
    /\ dev = [num |-> 0, invalid |-> FALSE]
    /\ wlog = <<>>

\* TPDO::sync is not running
NoSync == [pc |-> "idle", buf |-> 1, updated |-> FALSE, len |-> 0, dest |-> 0]

\* no TPDO takes part
TpdoOff ==
    /\ tp = [NoSync EXCEPT !.pc = "off"]
    /\ frame = [dlc |-> 0, data |-> <<>>]
    /\ tsent = <<>>
    /\ fresh = [b \in Bufs |-> FALSE]
    /\ tdue = FALSE
    /\ wmark = FALSE
    /\ wspan = FALSE
    /\ owed = [b \in Bufs |-> "none"]

\* delegates frames are handed to: the two counters and RPDO::handleFrame
Targets == {"counter1", "counter2", "rpdo"}

NoHeader == [id |-> -1, is_extended |-> FALSE, is_rtr |-> FALSE, is_error |-> FALSE]

\* no dispatcher takes part
DispOff ==
    /\ nreg = -1
    /\ listener_ = NoHeader
    /\ rcob = 0
    /\ rnobuf = FALSE
    /\ counter = [t \in Targets |-> 0]
    /\ ndisp = 0
    /\ expect = [t \in Targets |-> 0]
    /\ plain = TRUE
    /\ rlast = NoHeader

\* RPDO::init / TPDO::init before the call
NoInit == [pc |-> "off", kind |-> "rpdo", sizes |-> <<>>, invalid |-> FALSE, ndebug |-> FALSE,
           sub |-> 0, bufs |-> <<>>, dlc |-> 0, ret |-> FALSE]

\* no PDO is being initialised
InitOff == pi = NoInit

\* the driver thread, the receive thread of the CAN driver, a thread that
\* accesses the object storage
LockThreads == {"driver", "recv", "store"}

\* PDOMapper::mutex_, the PDO mutex of an RPDO and of a TPDO, the Buffer mutex
\* of a buffer of each
Mutexes == {"mapper", "rpdo", "tpdo", "rbuf", "tbuf"}

\* a thread outside every operation
NoOp == [prog |-> <<>>, i |-> 0, waiting |-> FALSE]

\* no thread runs an operation of the PDO subsystem
LockOff ==
    /\ lk = [m \in Mutexes |-> "free"]
    /\ lth = [t \in LockThreads |-> NoOp]
    /\ lempty = FALSE

\* a run of the layer stack alone
StackOnly ==
    /\ StatusOff /\ BuffersOff /\ RpdoOff /\ SlotOff /\ MapOff /\ TpdoOff /\ DispOff
    /\ InitOff /\ LockOff

----------------------------------------------------------------------------
(* state after construction and setup *)

Idle(t) ==
    /\ op[t] = "idle"
    /\ pc[t] = "idle"

Setup ==
    /\ nlayers \in 0 .. (IF conc THEN MaxConcLayers ELSE MaxLayers)
    /\ run_end_ = NullIt
    /\ segv = FALSE
    /\ up = [c \in Children |-> FALSE]
    /\ inited = [c \in Children |-> FALSE]
    /\ down = FALSE
    /\ op = [t \in Threads |-> "idle"]
    /\ pc = [t \in Threads |-> "idle"]
    /\ status = [t \in Threads |-> LayerStatus]
    /\ status0 = [t \in Threads |-> LayerStatus]
    /\ omit = [t \in Threads |-> LayerStatus]
    /\ it = [t \in Threads |-> NullIt]
    /\ lend = [t \in Threads |-> NullIt]
    /\ fr = [t \in Threads |-> NoFrame]
    /\ log = [t \in Threads |-> <<>>]
    /\ fst = [t \in Threads |-> LayerStatus]
    /\ entDown = [t \in Threads |-> FALSE]

\* all operations are invoked from one driver thread, one at a time
Init ==
    /\ conc = FALSE
    /\ Setup
    /\ StackOnly

\* the cycle operations run in a thread of their own
InitConc ==
    /\ conc = TRUE
    /\ Setup
    /\ StackOnly

\* the caller's status object on entry of an operation
Entry(s0) == IF s0 = OK THEN LayerStatus ELSE set(LayerStatus, s0, <<>>)

\* entry of an operation by thread t with a status of severity s0
Enter(t, o, s0) ==
    /\ ~segv
    /\ Idle(t)
    /\ conc \/ \A u \in Threads : Idle(u)
    /\ op' = [op EXCEPT ![t] = o]
    /\ status' = [status EXCEPT ![t] = Entry(s0)]
    /\ status0' = [status0 EXCEPT ![t] = Entry(s0)]
    /\ log' = [log EXCEPT ![t] = <<>>]
    /\ entDown' = [entDown EXCEPT ![t] = down]

\* effect of a child's func on the child's own lifecycle state
ChildState(func, c, o) ==
    /\ up' = IF conc THEN up
             ELSE IF func \in {"init", "recover"} THEN [up EXCEPT ![c] = (o <= WARN)]
             ELSE IF func = "shutdown" THEN [up EXCEPT ![c] = FALSE]
             ELSE up
    /\ inited' = IF func \in {"init", "recover"} THEN [inited EXCEPT ![c] = TRUE]
                 ELSE inited

----------------------------------------------------------------------------
(* VectorHelper::call *)

\* the loop condition fails: return end
call_end(t) ==
    /\ ~segv
    /\ pc[t] = "call"
    /\ fr[t].cur = fr[t].last
    /\ pc' = [pc EXCEPT ![t] = fr[t].cont]
    /\ it' = [it EXCEPT ![t] = IF fr[t].assign THEN fr[t].last ELSE @]
    /\ fr' = [fr EXCEPT ![t] = NoFrame]
    /\ UNCHANGED <<besideStack, conc, nlayers, run_end_, segv, up, inited, down, op, status, status0,
                   omit, lend, log, fst, entDown>>

\* faulty variant: the status on entry of call is not looked at
ReturnWhenUnbounded(okay, s, bound) == ~bounded(s, bound)

\* if(okay_on_start && !status.template bounded<Bound>()) return it;
ReturnEarly(okay, s, bound) == okay /\ ~bounded(s, bound)

\* one iteration: ((**it).*func)(status), then the short-circuit test
call_invoke(t) ==
    /\ ~segv
    /\ pc[t] = "call"
    /\ fr[t].cur # fr[t].last
    /\ Deref(fr[t]) \in Children
    /\ \E o \in Outcomes :
        LET f == fr[t]
            c == Deref(f)
            s == ChildCall(c, Target(t, f), o)
            stop == ReturnEarly(f.okay, s, f.bound)
        IN  /\ status' = IF f.tgt = "status" THEN [status EXCEPT ![t] = s] ELSE status
            /\ omit' = IF f.tgt = "omit" THEN [omit EXCEPT ![t] = s] ELSE omit
            /\ log' = [log EXCEPT ![t] = Append(@, <<f.func, c>>)]
            /\ ChildState(f.func, c, o)
            /\ pc' = [pc EXCEPT ![t] = IF stop THEN f.cont ELSE "call"]
            /\ it' = [it EXCEPT ![t] = IF stop /\ f.assign THEN f.cur ELSE @]
            /\ fr' = [fr EXCEPT ![t] = IF stop THEN NoFrame
                                       ELSE [f EXCEPT !.cur = Advance(f)]]
    /\ UNCHANGED <<besideStack, conc, nlayers, run_end_, segv, down, op, status0, lend, fst, entDown>>

\* the iterator does not point into the vector: the dereference faults
call_fault(t) ==
    /\ ~segv
    /\ pc[t] = "call"
    /\ fr[t].cur # fr[t].last
    /\ Deref(fr[t]) \notin Children
    /\ segv' = TRUE
    /\ UNCHANGED <<besideStack, conc, nlayers, run_end_, up, inited, down, op, pc, status, status0,
                   omit, it, lend, fr, log, fst, entDown>>

----------------------------------------------------------------------------
(* LayerStack::bringup *)

FuncFail(o) == IF o = "init" THEN "shutdown" ELSE "halt"

\* faulty variant: the bring-up loop also stops at a warning
BringupBreakAtWarn(s) == ~bounded(s, OK)

\* the break condition of the bring-up loop
BringupBreak(s) == ~bounded(s, WARN)

\* faulty variant: the unwind starts at the failing child itself
BringupUnwindFromFailing(i) == i + 1

\* first iterator of the unwind: reverse_iterator(it)
BringupUnwindBegin(i) == i

\* run_end_ while child i is brought up
BringupRunEnd(i) == i

\* init / recover: it = layers.begin(); run_end_ = it
bringup(t, o, s0) ==
    /\ Enter(t, o, s0)
    /\ it' = [it EXCEPT ![t] = Begin]
    /\ run_end_' = Begin
    /\ down' = FALSE
    /\ pc' = [pc EXCEPT ![t] = "bringup_loop"]
    /\ UNCHANGED <<besideStack, conc, nlayers, segv, up, inited, omit, lend, fr, fst>>

init(s0) == bringup("ctl", "init", s0)

recover(s0) == bringup("ctl", "recover", s0)

\* loop head: it != layers.end(), then run_end_ = it
bringup_loop(t) ==
    /\ ~segv
    /\ pc[t] = "bringup_loop"
    /\ IF it[t] # End
       THEN /\ run_end_' = BringupRunEnd(it[t])
            /\ pc' = [pc EXCEPT ![t] = "bringup_call"]
       ELSE /\ run_end_' = run_end_
            /\ pc' = [pc EXCEPT ![t] = "bringup_fail"]
    /\ UNCHANGED <<besideStack, conc, nlayers, segv, up, inited, down, op, status, status0, omit, it,
                   lend, fr, log, fst, entDown>>

\* ((**it).*func)(status); if(!status.bounded<Warn>()) break;
bringup_call(t) ==
    /\ ~segv
    /\ pc[t] = "bringup_call"
    /\ \E o \in Outcomes :
        LET c == it[t]
            s == ChildCall(c, status[t], o)
        IN  /\ status' = [status EXCEPT ![t] = s]
            /\ log' = [log EXCEPT ![t] = Append(@, <<op[t], c>>)]
            /\ ChildState(op[t], c, o)
            /\ IF BringupBreak(s)
               THEN /\ pc' = [pc EXCEPT ![t] = "bringup_fail"]
                    /\ it' = it
                    /\ fst' = [fst EXCEPT ![t] = s]
               ELSE /\ pc' = [pc EXCEPT ![t] = "bringup_loop"]
                    /\ it' = [it EXCEPT ![t] = @ + 1]
                    /\ fst' = fst
    /\ UNCHANGED <<besideStack, conc, nlayers, run_end_, segv, down, op, status0, omit, lend, fr,
                   entDown>>

\* if(it != layers.end()) call(func_fail, omit, reverse_iterator(it), rend())
bringup_fail(t) ==
    /\ ~segv
    /\ pc[t] = "bringup_fail"
    /\ IF it[t] # End
       THEN /\ omit' = [omit EXCEPT ![t] = LayerStatus]
            /\ fr' = [fr EXCEPT ![t] =
                        CallFrame(FuncFail(op[t]), UNBOUNDED, "omit", LayerStatus,
                                  BringupUnwindBegin(it[t]), Begin, TRUE,
                                  "bringup_done", FALSE)]
            /\ pc' = [pc EXCEPT ![t] = "call"]
       ELSE /\ omit' = omit
            /\ fr' = fr
            /\ pc' = [pc EXCEPT ![t] = "bringup_done"]
    /\ UNCHANGED <<besideStack, conc, nlayers, run_end_, segv, up, inited, down, op, status, status0,
                   it, lend, log, fst, entDown>>

\* run_end_ = it
bringup_done(t) ==
    /\ ~segv
    /\ pc[t] = "bringup_done"
    /\ run_end_' = it[t]
    /\ pc' = [pc EXCEPT ![t] = "ret"]
    /\ UNCHANGED <<besideStack, conc, nlayers, segv, up, inited, down, op, status, status0, omit, it,
                   lend, fr, log, fst, entDown>>

----------------------------------------------------------------------------
(* LayerStack::shutdown, LayerStack::halt *)

\* faulty variant: shutdown leaves run_end_ alone
ShutdownKeepsRunEnd(re) == re

\* run_end_ = layers.begin()
ShutdownReset(re) == Begin

\* faulty variant: shutdown and halt stop at the first child that lifts the
\* status above Warn
TeardownBoundWarn == WARN

\* Bound of the call of shutdown and halt: call without Bound is call<Unbounded>
TeardownBound == UNBOUNDED

shutdown(s0) ==
    /\ Enter("ctl", "shutdown", s0)
    /\ run_end_' = ShutdownReset(run_end_)
    /\ down' = TRUE
    /\ fr' = [fr EXCEPT !["ctl"] =
                CallFrame("shutdown", TeardownBound, "status", Entry(s0), End, Begin,
                          TRUE, "ret", FALSE)]
    /\ pc' = [pc EXCEPT !["ctl"] = "call"]
    /\ UNCHANGED <<besideStack, conc, nlayers, segv, up, inited, omit, it, lend, fst>>

halt(s0) ==
    /\ Enter("ctl", "halt", s0)
    /\ fr' = [fr EXCEPT !["ctl"] =
                CallFrame("halt", TeardownBound, "status", Entry(s0), End, Begin,
                          TRUE, "ret", FALSE)]
    /\ pc' = [pc EXCEPT !["ctl"] = "call"]
    /\ UNCHANGED <<besideStack, conc, nlayers, run_end_, segv, up, inited, down, omit, it, lend, fst>>

----------------------------------------------------------------------------
(* LayerStack::read *)

\* faulty variant: the halt range stops above the failing child
ReadHaltAboveFailing(i) == i + 1

\* last iterator of the halt range after a read fault at it: reverse_iterator(it)
ReadHaltLast(i) == i

\* faulty variant: the halt range starts at the end of the live prefix
ReadHaltFromRunEnd(e) == e

\* first iterator of the halt range after a read fault: layers.rbegin()
ReadHaltFirst(e) == End

\* faulty variant: the reads after the first fault are handed the caller's status
ReadRestOnCallerStatus == "status"

\* status the reads after the first fault are handed
ReadRestTarget == "omit"

\* vector_type::iterator end; if(end == run_end_) run_end_ = begin(); end = run_end_;
\* then call<Warn>(&Layer::read, status, begin(), end)
read(s0) ==
    /\ Enter("cyc", "read", s0)
    /\ run_end_' = IF NullIt = run_end_ THEN Begin ELSE run_end_
    /\ lend' = [lend EXCEPT !["cyc"] = run_end_']
    /\ fr' = [fr EXCEPT !["cyc"] =
                CallFrame("read", WARN, "status", Entry(s0), Begin, run_end_',
                          FALSE, "read_check", TRUE)]
    /\ pc' = [pc EXCEPT !["cyc"] = "call"]
    /\ UNCHANGED <<besideStack, conc, nlayers, segv, up, inited, down, omit, it, fst>>

\* if(it != end){ LayerStatus omit; call(&Layer::halt, omit, rbegin(), reverse_iterator(it));
read_check(t) ==
    /\ ~segv
    /\ pc[t] = "read_check"
    /\ IF it[t] # lend[t]
       THEN /\ omit' = [omit EXCEPT ![t] = LayerStatus]
            /\ fst' = [fst EXCEPT ![t] = status[t]]
            /\ fr' = [fr EXCEPT ![t] =
                        CallFrame("halt", UNBOUNDED, "omit", LayerStatus,
                                  ReadHaltFirst(lend[t]), ReadHaltLast(it[t]), TRUE,
                                  "read_rest", FALSE)]
            /\ pc' = [pc EXCEPT ![t] = "call"]
       ELSE /\ UNCHANGED <<omit, fst, fr>>
            /\ pc' = [pc EXCEPT ![t] = "ret"]
    /\ UNCHANGED <<besideStack, conc, nlayers, run_end_, segv, up, inited, down, op, status, status0,
                   it, lend, log, entDown>>

\* omit.error(); call(&Layer::read, omit, it+1, end); }
read_rest(t) ==
    /\ ~segv
    /\ pc[t] = "read_rest"
    /\ omit' = [omit EXCEPT ![t] = error(@, <<>>)]
    /\ fr' = [fr EXCEPT ![t] =
                CallFrame("read", UNBOUNDED, ReadRestTarget,
                          IF ReadRestTarget = "omit" THEN omit'[t] ELSE status[t],
                          it[t] + 1, lend[t], FALSE, "ret", FALSE)]
    /\ pc' = [pc EXCEPT ![t] = "call"]
    /\ UNCHANGED <<besideStack, conc, nlayers, run_end_, segv, up, inited, down, op, status, status0,
                   it, lend, log, fst, entDown>>

----------------------------------------------------------------------------
(* LayerStack::pending *)

\* faulty variant: pending is invoked on the last child of the live prefix
PendingOnLastLive(e) == e - 1

\* the child pending is invoked on: **end
PendingTarget(e) == e

\* end = run_end_
pending(s0) ==
    /\ Enter("cyc", "pending", s0)
    /\ lend' = [lend EXCEPT !["cyc"] = run_end_]
    /\ pc' = [pc EXCEPT !["cyc"] = "pending_call"]
    /\ UNCHANGED <<besideStack, conc, nlayers, run_end_, segv, up, inited, down, omit, it, fr, fst>>

\* if(end != layers.end()) (**end).pending(status)
pending_call(t) ==
    /\ ~segv
    /\ pc[t] = "pending_call"
    /\ PendingTarget(lend[t]) \in Children \/ lend[t] = End
    /\ IF lend[t] # End
       THEN \E o \in Outcomes :
              /\ status' = [status EXCEPT ![t] =
                              ChildCall(PendingTarget(lend[t]), @, o)]
              /\ log' = [log EXCEPT ![t] =
                           Append(@, <<"pending", PendingTarget(lend[t])>>)]
       ELSE UNCHANGED <<status, log>>
    /\ pc' = [pc EXCEPT ![t] = "ret"]
    /\ UNCHANGED <<besideStack, conc, nlayers, run_end_, segv, up, inited, down, op, status0, omit, it,
                   lend, fr, fst, entDown>>

\* end is neither layers.end() nor an element of the vector: **end faults
pending_fault(t) ==
    /\ ~segv
    /\ pc[t] = "pending_call"
    /\ lend[t] # End
    /\ PendingTarget(lend[t]) \notin Children
    /\ segv' = TRUE
    /\ UNCHANGED <<besideStack, conc, nlayers, run_end_, up, inited, down, op, pc, status, status0,
                   omit, it, lend, fr, log, fst, entDown>>

----------------------------------------------------------------------------
(* LayerStack::write *)

\* faulty variant: write starts at rbegin() whatever run_end_ is
WriteFromRbegin(re) == End

\* begin = reverse_iterator(run_end_)
WriteBegin(re) == re

\* last iterator of the halt range after a write fault at it: reverse_iterator(it)
WriteHaltLast(i) == i

write(s0) ==
    /\ Enter("cyc", "write", s0)
    /\ lend' = [lend EXCEPT !["cyc"] = WriteBegin(run_end_)]
    /\ fr' = [fr EXCEPT !["cyc"] =
                CallFrame("write", WARN, "status", Entry(s0), WriteBegin(run_end_),
                          Begin, TRUE, "write_check", TRUE)]
    /\ pc' = [pc EXCEPT !["cyc"] = "call"]
    /\ UNCHANGED <<besideStack, conc, nlayers, run_end_, segv, up, inited, down, omit, it, fst>>

\* if(it != rend()){ LayerStatus omit; call(&Layer::halt, omit, begin, reverse_iterator(it));
write_check(t) ==
    /\ ~segv
    /\ pc[t] = "write_check"
    /\ IF it[t] # Begin
       THEN /\ omit' = [omit EXCEPT ![t] = LayerStatus]
            /\ fst' = [fst EXCEPT ![t] = status[t]]
            /\ fr' = [fr EXCEPT ![t] =
                        CallFrame("halt", UNBOUNDED, "omit", LayerStatus, lend[t],
                                  WriteHaltLast(it[t]), TRUE, "write_rest", FALSE)]
            /\ pc' = [pc EXCEPT ![t] = "call"]
       ELSE /\ UNCHANGED <<omit, fst, fr>>
            /\ pc' = [pc EXCEPT ![t] = "ret"]
    /\ UNCHANGED <<besideStack, conc, nlayers, run_end_, segv, up, inited, down, op, status, status0,
                   it, lend, log, entDown>>

\* omit.error(); call(&Layer::write, omit, it+1, rend()); }
write_rest(t) ==
    /\ ~segv
    /\ pc[t] = "write_rest"
    /\ omit' = [omit EXCEPT ![t] = error(@, <<>>)]
    /\ fr' = [fr EXCEPT ![t] =
                CallFrame("write", UNBOUNDED, "omit", omit'[t], it[t] - 1, Begin,
                          TRUE, "ret", FALSE)]
    /\ pc' = [pc EXCEPT ![t] = "call"]
    /\ UNCHANGED <<besideStack, conc, nlayers, run_end_, segv, up, inited, down, op, status, status0,
                   it, lend, log, fst, entDown>>

----------------------------------------------------------------------------
(* LayerStack::diag *)

\* vector_type::iterator end; if(end == run_end_) return; end = run_end_;
\* call(&Layer::diag, report, begin(), end)
diag(s0) ==
    /\ Enter("cyc", "diag", s0)
    /\ IF NullIt = run_end_
       THEN /\ UNCHANGED <<lend, fr>>
            /\ pc' = [pc EXCEPT !["cyc"] = "ret"]
       ELSE /\ lend' = [lend EXCEPT !["cyc"] = run_end_]
            /\ fr' = [fr EXCEPT !["cyc"] =
                        CallFrame("diag", UNBOUNDED, "status", Entry(s0), Begin,
                                  run_end_, FALSE, "ret", FALSE)]
            /\ pc' = [pc EXCEPT !["cyc"] = "call"]
    /\ UNCHANGED <<besideStack, conc, nlayers, run_end_, segv, up, inited, down, omit, it, fst>>

----------------------------------------------------------------------------
(* return to the caller: the operation's locals go out of scope *)

Return(t) ==
    /\ ~segv
    /\ pc[t] = "ret"
    /\ op' = [op EXCEPT ![t] = "idle"]
    /\ pc' = [pc EXCEPT ![t] = "idle"]
    /\ status' = [status EXCEPT ![t] = LayerStatus]
    /\ status0' = [status0 EXCEPT ![t] = LayerStatus]
    /\ omit' = [omit EXCEPT ![t] = LayerStatus]
    /\ it' = [it EXCEPT ![t] = NullIt]
    /\ lend' = [lend EXCEPT ![t] = NullIt]
    /\ fr' = [fr EXCEPT ![t] = NoFrame]
    /\ log' = [log EXCEPT ![t] = <<>>]
    /\ fst' = [fst EXCEPT ![t] = LayerStatus]
    /\ entDown' = [entDown EXCEPT ![t] = FALSE]
    /\ UNCHANGED <<besideStack, conc, nlayers, run_end_, segv, up, inited, down>>

Next ==
    \/ \E s0 \in EntryStates : init(s0)
    \/ \E s0 \in EntryStates : recover(s0)
    \/ \E s0 \in EntryStates : shutdown(s0)
    \/ \E s0 \in EntryStates : halt(s0)
    \/ \E s0 \in EntryStates : read(s0)
    \/ \E s0 \in EntryStates : write(s0)
    \/ \E s0 \in EntryStates : pending(s0)
    \/ \E s0 \in EntryStates : diag(s0)
    \/ \E t \in Threads : call_end(t)
    \/ \E t \in Threads : call_invoke(t)
    \/ \E t \in Threads : call_fault(t)
    \/ bringup_loop("ctl")
    \/ bringup_call("ctl")
    \/ bringup_fail("ctl")
    \/ bringup_done("ctl")
    \/ read_check("cyc")
    \/ read_rest("cyc")
    \/ pending_call("cyc")
    \/ pending_fault("cyc")
    \/ write_check("cyc")
    \/ write_rest("cyc")
    \/ \E t \in Threads : Return(t)

Spec == Init /\ [][Next]_vars

SpecConc == InitConc /\ [][Next]_vars

----------------------------------------------------------------------------
(* sequences of child calls *)

\* a, a+1, ..., b
Up(a, b) == [i \in 1 .. (b - a + 1) |-> a + i - 1]

\* b, b-1, ..., a
Down(b, a) == [i \in 1 .. (b - a + 1) |-> b - i + 1]

Calls(f, cs) == [i \in 1 .. Len(cs) |-> <<f, cs[i]>>]

IsCall(f, e) == e[1] = f

CallsOf(f, l) == SelectSeq(l, LAMBDA e : IsCall(f, e))

ChildrenOf(l) == [i \in 1 .. Len(l) |-> l[i][2]]

Reverse(q) == [i \in 1 .. Len(q) |-> q[Len(q) + 1 - i]]

\* number of elements before iterator p
Idx(p) == IF p = NullIt THEN 0 ELSE p

AtRet(t, o) == pc[t] = "ret" /\ op[t] = o

----------------------------------------------------------------------------
(* bring-up *)

Quiescent == \A t \in Threads : Idle(t)

\* init / recover has returned after its loop stopped at child it
BringupStopped(f) == AtRet("ctl", f) /\ it["ctl"] # End

\* C1: when init (recover) stops at child k because the status is above Warn,
\* then on return the calls made are init (recover) on 0..k followed by
\* shutdown (halt) on k-1..0, each once, nothing on a child after k, the
\* caller's status is the one child k left (above Warn, untouched by the
\* unwind), and run_end_ points at k.
C1_BringupUnwind ==
    \A f \in {"init", "recover"} :
        BringupStopped(f) =>
            LET k == it["ctl"]
                unwind == IF f = "init" THEN "shutdown" ELSE "halt"
            IN  /\ k \in Children
                /\ log["ctl"] = Calls(f, Up(0, k)) \o Calls(unwind, Down(k - 1, 0))
                /\ ~bounded(status["ctl"], WARN)
                /\ status["ctl"] = fst["ctl"]
                /\ run_end_ = k

\* init of [A, B, C] stopped at C: A and B were shut down, B first
C1_Witness ==
    /\ BringupStopped("init")
    /\ nlayers = 3
    /\ it["ctl"] = 2
    /\ status0["ctl"].state = OK
    /\ log["ctl"][4] = <<"shutdown", 1>>
    /\ log["ctl"][5] = <<"shutdown", 0>>

\* C2: on a quiescent stack every child of [begin, run_end_) is live (brought
\* up successfully and not shut down since).
C2_LivePrefix ==
    (Quiescent /\ run_end_ # NullIt) =>
        \A c \in Children : c < run_end_ => up[c]

\* C3: at every moment run_end_ lies in [begin, end] and every child of
\* [begin, run_end_) has had an init or recover call return.
C3_RunEndBound ==
    /\ Begin <= run_end_
    /\ run_end_ <= End
    /\ \A c \in Children : c < run_end_ => inited[c]

\* the same once run_end_ has been assigned for the first time
RunEndBoundOnceAssigned ==
    run_end_ # NullIt =>
        /\ run_end_ \in 0 .. nlayers
        /\ \A c \in Children : c < run_end_ => inited[c]

\* C4: init / recover that returns with the status at most Warn has invoked the
\* bring-up operation once on every child in forward order and nothing else,
\* and run_end_ = end (a Warn does not stop it); on a stack without children
\* init, read, write and shutdown invoke nothing and leave the status as it was.
C4_BringupSuccess ==
    /\ \A f \in {"init", "recover"} :
          (AtRet("ctl", f) /\ bounded(status["ctl"], WARN)) =>
              /\ log["ctl"] = Calls(f, Up(0, nlayers - 1))
              /\ run_end_ = End
    /\ \A t \in Threads :
          (nlayers = 0 /\ pc[t] = "ret"
                /\ op[t] \in {"init", "read", "write", "shutdown"}) =>
              /\ log[t] = <<>>
              /\ status[t] = status0[t]

\* init of [A, B, C] entered Ok, B warned, all three were initialised
C4_Witness ==
    /\ AtRet("ctl", "init")
    /\ nlayers = 3
    /\ status0["ctl"].state = OK
    /\ status["ctl"] = [state |-> WARN, reason |-> <<"B">>]
    /\ Len(log["ctl"]) = 3
    /\ run_end_ = 3

----------------------------------------------------------------------------
(* read and write cycles *)

\* a read (write) cycle took the fault branch: its first call returned an
\* iterator other than the end of its range
ReadFaulted == op["cyc"] = "read" /\ pc["cyc"] \in {"read_rest", "ret"}
                   /\ it["cyc"] # lend["cyc"]

WriteFaulted == op["cyc"] = "write" /\ pc["cyc"] \in {"write_rest", "ret"}
                    /\ it["cyc"] # Begin

\* C5: with the operations run one at a time, a read cycle over the live
\* prefix [begin, run_end_) = 0..e-1 has invoked read on exactly 0..e-1 in
\* forward order, a write cycle has invoked write on exactly e-1..0, the
\* reverse; each child once, one call after the other.
C5_ReverseOrder ==
    LET e == Idx(run_end_)
    IN  /\ AtRet("cyc", "read") =>
              CallsOf("read", log["cyc"]) = Calls("read", Up(0, e - 1))
        /\ AtRet("cyc", "write") =>
              /\ CallsOf("write", log["cyc"]) = Calls("write", Down(e - 1, 0))
              /\ ChildrenOf(CallsOf("write", log["cyc"])) = Reverse(Up(0, e - 1))

\* a write cycle over the live prefix {A, B} of [A, B, C] wrote B, then A
C5_Witness ==
    /\ AtRet("cyc", "write")
    /\ nlayers = 3
    /\ run_end_ = 2
    /\ log["cyc"] = <<<<"write", 1>>, <<"write", 0>>>>

\* C6 as claimed: after a read fault the children halted are, in reverse
\* order, the children read so far in the cycle.
C6_HaltsAlreadyRead ==
    (ReadFaulted /\ pc["cyc"] = "read_rest") =>
        ChildrenOf(CallsOf("halt", log["cyc"]))
            = Reverse(ChildrenOf(CallsOf("read", log["cyc"])))

\* C6 amended: after a read fault at child k the calls made before read is
\* continued are read on 0..k and then halt on n-1..k: the failing child and
\* every child above it, in reverse order, in the live prefix or not; no halt
\* is invoked later in the cycle.
C6_HaltsFailingAndAbove ==
    ReadFaulted =>
        LET k == it["cyc"]
            before == Calls("read", Up(0, k)) \o Calls("halt", Down(nlayers - 1, k))
        IN  /\ k \in Children
            /\ Len(log["cyc"]) >= Len(before)
            /\ SubSeq(log["cyc"], 1, Len(before)) = before
            /\ pc["cyc"] = "read_rest" => log["cyc"] = before
            /\ CallsOf("halt", log["cyc"]) = Calls("halt", Down(nlayers - 1, k))

\* read over the live prefix {A, B} of [A, B, C] failed at B: C and B are halted
C6_Witness ==
    /\ ReadFaulted
    /\ pc["cyc"] = "read_rest"
    /\ nlayers = 3
    /\ lend["cyc"] = 2
    /\ it["cyc"] = 1
    /\ CallsOf("halt", log["cyc"]) = <<<<"halt", 2>>, <<"halt", 1>>>>

\* C7: a read cycle that faulted at child k has, on return, invoked read once
\* on every child k+1..e-1 in forward order after the halts, whatever those
\* children raised, and the caller's status is the one child k's read left.
C7_ReadRest ==
    (ReadFaulted /\ pc["cyc"] = "ret") =>
        LET k == it["cyc"]
            e == lend["cyc"]
            nhalt == Len(CallsOf("halt", log["cyc"]))
        IN  /\ SubSeq(log["cyc"], k + 2 + nhalt, Len(log["cyc"]))
                  = Calls("read", Up(k + 1, e - 1))
            /\ status["cyc"] = fst["cyc"]
            /\ ~bounded(fst["cyc"], WARN)

\* read of [A, B, C] failed at A; B and C were still read, C raised an error
\* on the throwaway status
C7_Witness ==
    /\ ReadFaulted
    /\ pc["cyc"] = "ret"
    /\ nlayers = 3
    /\ it["cyc"] = 0
    /\ lend["cyc"] = 3
    /\ log["cyc"][5] = <<"read", 1>>
    /\ log["cyc"][6] = <<"read", 2>>
    /\ status["cyc"] = [state |-> ERROR, reason |-> <<"A">>]
    /\ omit["cyc"].reason = <<"C">>

\* children halted by a read fault at child k: the range
\* [rbegin(), reverse_iterator(it))
ReadHalted(k) == {c \in Children : ReadHaltLast(k) <= c /\ c < Idx(End)}

\* C8: a write fault at child k halts the failing child and the children
\* outside the live prefix exactly when a read fault at k does.
C8_WriteMirrorsRead ==
    (WriteFaulted /\ pc["cyc"] = "write_rest") =>
        LET k == it["cyc"] - 1
            e == lend["cyc"]
            halted == {log["cyc"][i][2] : i \in {j \in 1 .. Len(log["cyc"]) :
                                                    IsCall("halt", log["cyc"][j])}}
        IN  /\ (k \in halted) = (k \in ReadHalted(k))
            /\ \A c \in Children : c >= e => ((c \in halted) = (c \in ReadHalted(k)))

----------------------------------------------------------------------------
(* shutdown and pending *)

\* C9 as claimed: a read, write or pending entered after shutdown has reset
\* run_end_ and before the next init / recover invokes no operation on any child.
C9_CyclesAreNoOps ==
    (entDown["cyc"] /\ op["cyc"] \in {"read", "write", "pending"}) =>
        log["cyc"] = <<>>

\* C9 amended: shutdown resets run_end_ to begin before its first child call
\* and it stays there until the next init / recover; a read or write entered
\* in between invokes nothing, while pending invokes pending on the first
\* child of a stack that has children.
C9_ReadWriteAreNoOps ==
    /\ down => run_end_ = Begin
    /\ (op["ctl"] = "shutdown" /\ log["ctl"] # <<>>) => down
    /\ (entDown["cyc"] /\ op["cyc"] \in {"read", "write"}) => log["cyc"] = <<>>
    /\ (entDown["cyc"] /\ AtRet("cyc", "pending")) =>
          log["cyc"] = IF nlayers = 0 THEN <<>> ELSE <<<<"pending", 0>>>>

\* a read was entered and has returned, without a child call, while shutdown
\* of [A, B] is between its calls on B and on A
C9_Witness ==
    /\ nlayers = 2
    /\ op["ctl"] = "shutdown"
    /\ log["ctl"] = <<<<"shutdown", 1>>>>
    /\ entDown["cyc"]
    /\ AtRet("cyc", "read")
    /\ log["cyc"] = <<>>
    /\ inited[0] /\ inited[1]

\* C10: pending invokes pending on at most one child, the one the observed
\* run_end_ points at, and on none when that is end; never on a child of the
\* live prefix below it.
C10_PendingFrontier ==
    op["cyc"] = "pending" =>
        /\ Len(log["cyc"]) <= 1
        /\ \A i \in 1 .. Len(log["cyc"]) :
              /\ log["cyc"][i] = <<"pending", lend["cyc"]>>
              /\ lend["cyc"] # End
              /\ log["cyc"][i][2] \notin 0 .. (lend["cyc"] - 1)
        /\ pc["cyc"] = "ret" =>
              Len(log["cyc"]) = IF lend["cyc"] = End THEN 0 ELSE 1

\* pending was invoked on B while init of [A, B] is inside B's init
C10_Witness ==
    /\ nlayers = 2
    /\ op["ctl"] = "init"
    /\ pc["ctl"] = "bringup_call"
    /\ it["ctl"] = 1
    /\ AtRet("cyc", "pending")
    /\ log["cyc"] = <<<<"pending", 1>>>>

----------------------------------------------------------------------------
(* a freshly constructed stack *)

\* neither init, recover nor shutdown has been called on the stack yet
FreshStack ==
    /\ nlayers >= 1
    /\ ~down
    /\ \A c \in Children : ~inited[c]
    /\ op["ctl"] \notin {"init", "recover", "shutdown"}

\* C11: on a stack with at least one child on which neither init, recover nor
\* shutdown has been called, read, write, pending and diag never dereference
\* an address outside the child vector and invoke no operation on any child.
C11_FreshStackTolerant ==
    FreshStack =>
        /\ ~segv
        /\ log["cyc"] = <<>>

----------------------------------------------------------------------------
(* LayerStatus updated from several threads *)

\* number of warn / error / stale calls made on the shared LayerStatus
MaxUpdates == 3

\* reasons a caller may pass; the empty string is the default argument
Reasons == {<<>>, <<"a">>, <<"b">>}

\* the layer stack takes no part in the run
StackOff ==
    /\ conc = FALSE
    /\ nlayers = 0
    /\ run_end_ = NullIt
    /\ segv = FALSE
    /\ up = <<>>
    /\ inited = <<>>
    /\ down = FALSE
    /\ op = [t \in Threads |-> "off"]
    /\ pc = [t \in Threads |-> "off"]
    /\ status = [t \in Threads |-> LayerStatus]
    /\ status0 = [t \in Threads |-> LayerStatus]
    /\ omit = [t \in Threads |-> LayerStatus]
    /\ it = [t \in Threads |-> NullIt]
    /\ lend = [t \in Threads |-> NullIt]
    /\ fr = [t \in Threads |-> NoFrame]
    /\ log = [t \in Threads |-> <<>>]
    /\ fst = [t \in Threads |-> LayerStatus]
    /\ entDown = [t \in Threads |-> FALSE]

\* LayerStatus() : state(OK) {}
InitStatus ==
    /\ StackOff
    /\ BuffersOff
    /\ RpdoOff
    /\ SlotOff
    /\ MapOff
    /\ TpdoOff
    /\ DispOff
    /\ InitOff
    /\ LockOff
    /\ shared = LayerStatus
    /\ write_mutex_ = "free"
    /\ spc = [t \in Setters |-> "idle"]
    /\ sarg = [t \in Setters |-> <<OK, <<>>>>]
    /\ scmp = [t \in Setters |-> FALSE]
    /\ applied = <<>>

\* calls of set that have been made so far
Started == Len(applied) + Cardinality({t \in Setters : spc[t] \in {"lock", "cmp", "assign"}})

\* warn(r) / error(r) / stale(r): set(WARN / ERROR / STALE, r)
st_call(t, s, r) ==
    /\ spc[t] = "idle"
    /\ Started < MaxUpdates
    /\ sarg' = [sarg EXCEPT ![t] = <<s, r>>]
    /\ spc' = [spc EXCEPT ![t] = "lock"]
    /\ UNCHANGED <<besideStatus, shared, write_mutex_, scmp, applied>>

\* faulty variant: the lock is taken whether or not another thread holds it
MutexIgnored(m) == TRUE

\* a scoped_lock can be taken on mutex m
MutexFree(m) == m = "free"

\* boost::mutex::scoped_lock lock(write_mutex_)
st_lock(t) ==
    /\ spc[t] = "lock"
    /\ MutexFree(write_mutex_)
    /\ write_mutex_' = t
    /\ spc' = [spc EXCEPT ![t] = "cmp"]
    /\ UNCHANGED <<besideStatus, shared, sarg, scmp, applied>>

\* if(s > state): the atomic load and the comparison
st_cmp(t) ==
    /\ spc[t] = "cmp"
    /\ scmp' = [scmp EXCEPT ![t] = sarg[t][1] > shared.state]
    /\ spc' = [spc EXCEPT ![t] = "assign"]
    /\ UNCHANGED <<besideStatus, shared, write_mutex_, sarg, applied>>

\* state = s: the atomic store, when the comparison held
st_assign(t) ==
    /\ spc[t] = "assign"
    /\ shared' = [shared EXCEPT !.state = IF scmp[t] THEN sarg[t][1] ELSE @]
    /\ applied' = Append(applied, sarg[t])
    /\ spc' = [spc EXCEPT ![t] = "reason"]
    /\ UNCHANGED <<besideStatus, write_mutex_, sarg, scmp>>

\* the update of reason_ and the release of the lock at the end of set
st_reason(t) ==
    /\ spc[t] = "reason"
    /\ shared' = [shared EXCEPT !.reason = set(shared, sarg[t][1], sarg[t][2]).reason]
    /\ write_mutex_' = "free"
    /\ spc' = [spc EXCEPT ![t] = "idle"]
    /\ UNCHANGED <<besideStatus, sarg, scmp, applied>>

NextStatus ==
    \/ \E t \in Setters, s \in {WARN, ERROR, STALE}, r \in Reasons : st_call(t, s, r)
    \/ \E t \in Setters : st_lock(t)
    \/ \E t \in Setters : st_cmp(t)
    \/ \E t \in Setters : st_assign(t)
    \/ \E t \in Setters : st_reason(t)

SpecStatus == InitStatus /\ [][NextStatus]_vars

\* the larger of two severities
MaxOf(a, b) == IF a > b THEN a ELSE b

\* the largest severity among the first n updates of h, and Ok
RECURSIVE MaxSeverity(_, _)
MaxSeverity(h, n) == IF n = 0 THEN OK ELSE MaxOf(h[n][1], MaxSeverity(h, n - 1))

\* the non-empty reasons among the first n updates of h, joined by "; "
RECURSIVE Joined(_, _)
Joined(h, n) ==
    IF n = 0 THEN <<>>
    ELSE LET rest == Joined(h, n - 1)
             r == h[n][2]
         IN  IF r = <<>> THEN rest
             ELSE IF rest = <<>> THEN r
             ELSE rest \o <<";", " ">> \o r

\* C12: the severity of the shared status is at every moment the maximum of
\* Ok and the severities of all updates applied so far, whichever threads
\* made them; an update never lowers it.
C12_MaxSeverity ==
    /\ shared.state = MaxSeverity(applied, Len(applied))
    /\ \A t \in Setters : spc[t] = "reason" => shared.state >= sarg[t][1]

\* error() was applied, then a warn() from the other thread that waited for
\* the lock: the severity is still Error
C12_Witness ==
    /\ Len(applied) = 2
    /\ applied[1][1] = ERROR
    /\ applied[2][1] = WARN
    /\ spc["t2"] = "reason"
    /\ spc["t1"] = "lock"
    /\ shared.state = ERROR

\* C13: whenever reason() can be read (the lock is free) it is the non-empty
\* reasons of the calls made so far, in call order, joined by "; ", with no
\* separator at either end; a call with an empty reason leaves it unchanged,
\* and a reason is appended whether or not the call raised the severity.
C13_ReasonTrail ==
    write_mutex_ = "free" =>
        /\ shared.reason = Joined(applied, Len(applied))
        /\ shared.reason # <<>> =>
              /\ shared.reason[1] # ";"
              /\ shared.reason[Len(shared.reason)] # " "

\* error("a"), stale(), warn("b"): the reason is "a; b", the last part from a
\* call that did not raise the severity
C13_Witness ==
    /\ write_mutex_ = "free"
    /\ applied = <<<<ERROR, <<"a">>>>, <<STALE, <<>>>>, <<WARN, <<"b">>>>>>
    /\ shared = [state |-> STALE, reason |-> <<"a", ";", " ", "b">>]

----------------------------------------------------------------------------
(* PDOMapper::RPDO *)

\* largest cyclic transmission type the RPDO is set up with
MaxCyclic == 2

\* transmission types: 1 .. 240 cyclic, 0xFC synchronous RTR, 0xFD asynchronous RTR
LastCyclicType == 240

SyncRtrType == 252

AsyncRtrType == 253

EventType == 254

\* timeout after a frame of an RTR type: 1+2
RtrTimeout == 3

TransmissionTypes == {0} \cup (1 .. MaxCyclic) \cup {SyncRtrType, AsyncRtrType, EventType}

\* RPDO::sync calls of a run
MaxSyncs == MaxCyclic + 4

\* RPDO::init does not assign timeout: it holds what the constructor left
TimeoutAtInit == -1 .. (MaxCyclic + 2)

\* frames: dlc = Len(data) bytes
Frames == UNION {[1 .. n -> Bytes] : n \in 0 .. (NumBufs * BufSize)}

\* the text of the timeout warning
RpdoTimeoutReason == <<"RPDO timeout">>

\* after RPDO::init returned true: the buffers are clean (b->clean()), the
\* listener is registered
InitRpdo ==
    /\ StackOff
    /\ StatusOff
    /\ SlotOff
    /\ MapOff
    /\ TpdoOff
    /\ DispOff
    /\ InitOff
    /\ LockOff
    /\ empty \in [Bufs -> BOOLEAN]
    /\ dirty = [b \in Bufs |-> FALSE]
    /\ buffer = [b \in Bufs |-> NewBuffer]
    /\ transmission_type \in TransmissionTypes
    /\ timeout \in TimeoutAtInit
    /\ is_rtr \in BOOLEAN
    /\ rstatus = LayerStatus
    /\ since = 0
    /\ framed = FALSE
    /\ nsync = 0
    /\ rtr_sent = FALSE

\* (transmission_type >= 1 && transmission_type <= 240) || transmission_type == 0xFC
Cyclic(tt) == (tt >= 1 /\ tt <= LastCyclicType) \/ tt = SyncRtrType

\* the effect of RPDO::sync on the status it is handed
SyncStatus(st, tt, to) ==
    IF Cyclic(tt) /\ ~(to > 0) /\ to = 0 THEN warn(st, RpdoTimeoutReason) ELSE st

\* the effect of RPDO::sync on timeout
SyncTimeout(tt, to) == IF Cyclic(tt) /\ to > 0 THEN to - 1 ELSE to

\* RPDO::sync(status)
rpdo_sync(s0) ==
    /\ nsync \in 0 .. (MaxSyncs - 1)
    /\ timeout' = SyncTimeout(transmission_type, timeout)
    /\ rstatus' = SyncStatus(Entry(s0), transmission_type, timeout)
    /\ rtr_sent' = (transmission_type \in {SyncRtrType, AsyncRtrType} /\ is_rtr)
    /\ since' = since + 1
    /\ nsync' = nsync + 1
    /\ UNCHANGED <<besideRpdo, bufVars, transmission_type, is_rtr, framed>>

\* offset in the frame when RPDO::handleFrame comes to buffer b
RECURSIVE FrameOffset(_, _)
FrameOffset(b, dlc) ==
    IF b = 1 THEN 0
    ELSE LET o == FrameOffset(b - 1, dlc)
         IN  IF o + BufSize <= dlc THEN o + BufSize ELSE o

\* if( offset + b.size <= msg.dlc )
FrameCovers(b, dlc) == FrameOffset(b, dlc) + BufSize <= dlc

\* the timeout RPDO::handleFrame sets
FrameTimeout(tt, rtr, to) ==
    IF tt >= 1 /\ tt <= LastCyclicType THEN tt + 2
    ELSE IF tt = SyncRtrType \/ tt = AsyncRtrType THEN (IF rtr THEN RtrTimeout ELSE to)
    ELSE to

\* RPDO::handleFrame(msg): Buffer::write(src+offset, b.size) on every buffer the
\* frame covers, then the timeout under the PDO mutex
handleFrame(msg) ==
    /\ nsync >= 0
    /\ empty' = [b \in Bufs |-> IF FrameCovers(b, Len(msg)) THEN FALSE ELSE empty[b]]
    /\ dirty' = [b \in Bufs |-> IF FrameCovers(b, Len(msg)) THEN TRUE ELSE dirty[b]]
    /\ buffer' = [b \in Bufs |->
                    IF FrameCovers(b, Len(msg))
                    THEN SubSeq(msg, FrameOffset(b, Len(msg)) + 1,
                                FrameOffset(b, Len(msg)) + BufSize)
                    ELSE buffer[b]]
    /\ timeout' = FrameTimeout(transmission_type, is_rtr, timeout)
    /\ since' = 0
    /\ framed' = TRUE
    /\ UNCHANGED <<besideRpdo, transmission_type, is_rtr, rstatus, nsync, rtr_sent>>

NextRpdo ==
    \/ \E s0 \in EntryStates : rpdo_sync(s0)
    \/ \E msg \in Frames : handleFrame(msg)

SpecRpdo == InitRpdo /\ [][NextRpdo]_vars

\* the status carries the timeout warning
TimedOut(st) ==
    /\ st.state >= WARN
    /\ \E i \in 1 .. Len(st.reason) : st.reason[i] = RpdoTimeoutReason[1]

\* C14: for a cyclic type N in 1..240, the status handed to the (N+2)-th
\* consecutive RPDO::sync without a handled frame in between (here: counted
\* from a handled frame) comes back escalated to Warn with "RPDO timeout".
C14_TimeoutAfterNPlus2 ==
    (framed /\ transmission_type \in 1 .. LastCyclicType
            /\ since = transmission_type + 2) =>
        TimedOut(rstatus)

----------------------------------------------------------------------------
(* PDOMapper::Buffer *)

\* the Buffer slot the operations below are called on
Slot == 1

\* byte arrays (b, len) handed to Buffer::read / Buffer::write
ByteArrays == UNION {[1 .. n -> Bytes] : n \in 0 .. (BufSize + 1)}

\* a Buffer fresh from its constructor and a thread about to call the
\* blocking read
InitBuffer ==
    /\ StackOff
    /\ StatusOff
    /\ RpdoOff
    /\ BuffersOff
    /\ MapOff
    /\ TpdoOff
    /\ DispOff
    /\ InitOff
    /\ LockOff
    /\ bmutex = "free"
    /\ rpc = "idle"
    /\ rdata = <<>>
    /\ rfault = "none"
    /\ expired = FALSE
    /\ notified = FALSE
    /\ atExpiry = TRUE
    /\ called = NoCall
    /\ lastw = <<>>
    /\ wsince = FALSE

\* Buffer::write(const uint8_t* b, len): the whole call, under the mutex
buf_write(data) ==
    /\ MutexFree(bmutex)
    /\ IF BufSize > Len(data)
       THEN /\ called' = [NoCall EXCEPT !.op = "write", !.dst = data, !.fault = "bad_cast"]
            /\ UNCHANGED <<bufVars, notified, lastw, wsince>>
       ELSE /\ empty' = [empty EXCEPT ![Slot] = FALSE]
            /\ dirty' = [dirty EXCEPT ![Slot] = TRUE]
            /\ buffer' = [buffer EXCEPT ![Slot] = SubSeq(data, 1, BufSize)]
            /\ notified' = (notified \/ rpc = "wait")
            /\ lastw' = SubSeq(data, 1, BufSize)
            /\ wsince' = TRUE
            /\ called' = [NoCall EXCEPT !.op = "write", !.dst = data]
    /\ UNCHANGED <<besideSlot, bmutex, rpc, rdata, rfault, expired, atExpiry>>

\* Buffer::write(entry, const String &data): the whole call, under the mutex
buf_write_entry(data) ==
    /\ MutexFree(bmutex)
    /\ IF BufSize # Len(data)
       THEN /\ called' = [NoCall EXCEPT !.op = "write_entry", !.dst = data,
                                          !.fault = "bad_cast"]
            /\ UNCHANGED <<bufVars, lastw, wsince>>
       ELSE /\ empty' = [empty EXCEPT ![Slot] = FALSE]
            /\ dirty' = [dirty EXCEPT ![Slot] = TRUE]
            /\ buffer' = [buffer EXCEPT ![Slot] = data]
            /\ lastw' = data
            /\ wsince' = TRUE
            /\ called' = [NoCall EXCEPT !.op = "write_entry", !.dst = data]
    /\ UNCHANGED <<besideSlot, bmutex, rpc, rdata, rfault, expired, notified, atExpiry>>

\* faulty variant: a read leaves the dirty flag as it found it
ReadKeepsDirty(d) == d

\* dirty = false
ReadClearsDirty(d) == FALSE

\* Buffer::read(uint8_t* b, len): the whole call, under the mutex
buf_read(dst) ==
    /\ MutexFree(bmutex)
    /\ IF BufSize > Len(dst)
       THEN /\ called' = [NoCall EXCEPT !.op = "read", !.dst = dst, !.fault = "bad_cast"]
            /\ UNCHANGED <<bufVars, wsince>>
       ELSE IF empty[Slot]
       THEN /\ called' = [op |-> "read", dst |-> dst, out |-> dst, ret |-> FALSE,
                           fault |-> "none", stored |-> lastw, written |-> wsince]
            /\ wsince' = FALSE
            /\ UNCHANGED bufVars
       ELSE /\ called' = [op |-> "read", dst |-> dst,
                           out |-> buffer[Slot] \o SubSeq(dst, BufSize + 1, Len(dst)),
                           ret |-> dirty[Slot], fault |-> "none",
                           stored |-> lastw, written |-> wsince]
            /\ dirty' = [dirty EXCEPT ![Slot] = ReadClearsDirty(@)]
            /\ wsince' = FALSE
            /\ UNCHANGED <<empty, buffer>>
    /\ UNCHANGED <<besideSlot, bmutex, rpc, rdata, rfault, expired, notified, atExpiry,
                   lastw>>

\* strings handed to Buffer::read(entry, String&) and Buffer::write(entry, String)
Strings == UNION {[1 .. n -> Bytes] : n \in BufSize .. (BufSize + 1)}

\* a thread calls Buffer::read(entry, String &data)
rd_call(data) ==
    /\ rpc = "idle"
    /\ rpc' = "lock"
    /\ rdata' = data
    /\ rfault' = "none"
    /\ expired' = FALSE
    /\ notified' = FALSE
    /\ atExpiry' = TRUE
    /\ UNCHANGED <<besideSlot, bufVars, bmutex, called, lastw, wsince>>

\* scoped_lock lock(mutex); abs_time = now + 1 s; if(size != data.size()) throw bad_cast
rd_lock ==
    /\ rpc = "lock"
    /\ MutexFree(bmutex)
    /\ IF BufSize # Len(rdata)
       THEN /\ rfault' = "bad_cast"
            /\ rpc' = "idle"
            /\ bmutex' = "free"
       ELSE /\ rfault' = rfault
            /\ rpc' = "loop"
            /\ bmutex' = "reader"
    /\ UNCHANGED <<besideSlot, bufVars, rdata, expired, notified, atExpiry, called, lastw,
                   wsince>>

\* while(empty) cond.wait_until(lock, abs_time): the wait releases the mutex;
\* past the loop: if(dirty){ data.assign(buffer); dirty = false; } and return
rd_loop ==
    /\ rpc = "loop"
    /\ IF empty[Slot]
       THEN /\ rpc' = "wait"
            /\ notified' = FALSE
            /\ UNCHANGED <<bufVars, rdata, wsince>>
       ELSE /\ rpc' = "idle"
            /\ rdata' = IF dirty[Slot] THEN buffer[Slot] ELSE rdata
            /\ dirty' = [dirty EXCEPT ![Slot] = FALSE]
            /\ wsince' = FALSE
            /\ UNCHANGED <<empty, buffer, notified>>
    /\ bmutex' = "free"
    /\ UNCHANGED <<besideSlot, rfault, expired, atExpiry, called, lastw>>

\* the wait ends before the deadline, by notify_all or spuriously: no_timeout
rd_wake ==
    /\ rpc = "wait"
    /\ notified \/ ~expired
    /\ rpc' = "relock_ok"
    /\ UNCHANGED <<besideSlot, bufVars, bmutex, rdata, rfault, expired, notified, atExpiry,
                   called, lastw, wsince>>

\* the wait ends because the deadline passed: cv_status::timeout
rd_timeout ==
    /\ rpc = "wait"
    /\ expired
    /\ ~notified
    /\ rpc' = "relock_timeout"
    /\ UNCHANGED <<besideSlot, bufVars, bmutex, rdata, rfault, expired, notified, atExpiry,
                   called, lastw, wsince>>

\* wait_until takes the mutex again and returns; on cv_status::timeout
\* read throws TimeoutException
rd_relock ==
    /\ rpc \in {"relock_ok", "relock_timeout"}
    /\ MutexFree(bmutex)
    /\ IF rpc = "relock_timeout"
       THEN /\ rfault' = "timeout"
            /\ rpc' = "idle"
            /\ bmutex' = "free"
       ELSE /\ rfault' = rfault
            /\ rpc' = "loop"
            /\ bmutex' = "reader"
    /\ UNCHANGED <<besideSlot, bufVars, rdata, expired, notified, atExpiry, called, lastw,
                   wsince>>

\* the clock passes abs_time
deadline ==
    /\ rpc \in {"loop", "wait", "relock_ok"}
    /\ ~expired
    /\ expired' = TRUE
    /\ atExpiry' = empty[Slot]
    /\ UNCHANGED <<besideSlot, bufVars, bmutex, rpc, rdata, rfault, notified, called, lastw,
                   wsince>>

NextBuffer ==
    \/ \E data \in ByteArrays : buf_write(data)
    \/ \E data \in Strings : buf_write_entry(data)
    \/ \E dst \in ByteArrays : buf_read(dst)
    \/ \E data \in Strings : rd_call(data)
    \/ rd_lock
    \/ rd_loop
    \/ rd_wake
    \/ rd_timeout
    \/ rd_relock
    \/ deadline

SpecBuffer == InitBuffer /\ [][NextBuffer]_vars

\* C15: a thread waiting in Buffer::read(entry, String&) is woken once another
\* thread has written the buffer before the deadline, and the read raises the
\* timeout fault only if the buffer was still empty when the deadline passed.
C15_BlockingRead ==
    /\ (rpc = "wait" /\ ~empty[Slot] /\ ~expired) => notified
    /\ rfault = "timeout" => atExpiry

\* C16: a Buffer::read(bytes, len) that matches the size returns the bytes of
\* the most recent write and the flag "a write occurred since the previous
\* read"; on a buffer never written it returns false and copies nothing.
C16_RoundTrip ==
    (called.op = "read" /\ called.fault = "none") =>
        /\ called.ret = called.written
        /\ called.stored # <<>> =>
              /\ SubSeq(called.out, 1, BufSize) = called.stored
              /\ SubSeq(called.out, BufSize + 1, Len(called.out))
                    = SubSeq(called.dst, BufSize + 1, Len(called.dst))
        /\ called.stored = <<>> =>
              /\ called.out = called.dst
              /\ ~called.ret

\* a second read with no write in between: it returns the bytes of the write
\* again, and false
C16_Witness ==
    /\ called.op = "read"
    /\ called.fault = "none"
    /\ called.stored = [i \in 1 .. BufSize |-> 1]
    /\ called.dst = [i \in 1 .. BufSize |-> 0]
    /\ called.out = called.stored
    /\ ~called.written
    /\ ~called.ret

----------------------------------------------------------------------------
(* PDOMapper::PDO::parse_and_set_mapping *)

\* largest sub-index of the mapping object in the dictionary
MaxSub == 2

\* largest mapping count that stands for a list of entries: 0x40
MaxMapNum == 64

\* a mapping count above 0x40
RecordMode == 65

\* last sub-index check_com_changed looks at
LastComSub == 6

\* const uint8_t SUB_COM_COB_ID, SUB_COM_RESERVED
SUB_COM_COB_ID == 1

SUB_COM_TRANSMISSION_TYPE == 2

SUB_COM_RESERVED == 4

\* values of sub 0 of the communication object: its highest sub-index
ComSubCounts == {2, 5}

\* the PDO's objects in the dictionary: the mapping count, which mapping subs
\* (0 .. MaxSub) carry an init_val, which of the communication subs count,
\* COB-ID and transmission type carry one, the highest communication sub, and
\* the invalid bit of the COB-ID value
Dictionaries ==
    [map_num : (0 .. MaxSub) \cup {RecordMode},
     map_init : [0 .. MaxSub -> BOOLEAN],
     com_init : [0 .. SUB_COM_TRANSMISSION_TYPE -> BOOLEAN],
     com_subs : ComSubCounts,
     cob_invalid : BOOLEAN]

\* on entry of parse_and_set_mapping the device holds the mapping count the
\* dictionary describes and an enabled PDO
InitMap ==
    /\ StackOff
    /\ StatusOff
    /\ BuffersOff
    /\ RpdoOff
    /\ SlotOff
    /\ TpdoOff
    /\ DispOff
    /\ InitOff
    /\ LockOff
    /\ dict \in Dictionaries
    /\ pm = [NoMapping EXCEPT !.pc = "start"]
    /\ dev = [num |-> dict.map_num, invalid |-> FALSE]
    /\ wlog = <<>>

\* check_map_changed(num, dict, map_index)
check_map_changed(d) ==
    IF d.map_num <= MaxMapNum
    THEN \E sub \in 1 .. d.map_num : sub \in DOMAIN d.map_init /\ d.map_init[sub]
    ELSE ~d.map_init[0]

\* check_com_changed(dict, com_id), called with com_id = map_index: the subs
\* 0 .. 6 of that object that exist
check_com_changed(d) ==
    \E sub \in 0 .. LastComSub : sub \in DOMAIN d.map_init /\ d.map_init[sub]

\* if(map_num > 0 && map_num <= 0x40)
ActualMapping(d) == d.map_num > 0 /\ d.map_num <= MaxMapNum

\* bool map_changed = check_map_changed(...); bool com_changed = check_com_changed(...)
pm_start ==
    /\ pm.pc = "start"
    /\ pm' = [pm EXCEPT !.pc = "disable",
                         !.map_changed = check_map_changed(dict),
                         !.com_changed = check_com_changed(dict)]
    /\ UNCHANGED <<besideMap, dict, dev, wlog>>

\* if(map_changed || com_changed){ cur.invalid = 1; cob_id.set(cur.get()); }
pm_disable ==
    /\ pm.pc = "disable"
    /\ IF pm.map_changed \/ pm.com_changed
       THEN /\ wlog' = Append(wlog, <<"cob", "invalid", dev.num>>)
            /\ dev' = [dev EXCEPT !.invalid = TRUE]
       ELSE UNCHANGED <<wlog, dev>>
    /\ pm' = [pm EXCEPT !.pc = "clear"]
    /\ UNCHANGED <<besideMap, dict>>

\* faulty variant: the mapping count is left as it is
KeepCount(mc) == FALSE

\* if(map_changed) num_entry.set(0)
ClearCount(mc) == mc

\* if(map_num > 0 && map_num <= 0x40){ if(map_changed) num_entry.set(0); frame.dlc = 0;
pm_clear ==
    /\ pm.pc = "clear"
    /\ IF ActualMapping(dict)
       THEN /\ IF ClearCount(pm.map_changed)
               THEN /\ wlog' = Append(wlog, <<"num", 0, dev.num>>)
                    /\ dev' = [dev EXCEPT !.num = 0]
               ELSE UNCHANGED <<wlog, dev>>
            /\ pm' = [pm EXCEPT !.pc = "map", !.sub = 1, !.dlc = 0]
       ELSE /\ pm' = [pm EXCEPT !.pc = "com", !.sub = SUB_COM_COB_ID]
            /\ UNCHANGED <<wlog, dev>>
    /\ UNCHANGED <<besideMap, dict>>

\* one turn of the loop over the mapping subs: if(!init.is_empty())
\* mapentry.set(init); a Buffer is made and frame.dlc grows by its size
pm_map ==
    /\ pm.pc = "map"
    /\ IF pm.sub <= dict.map_num
       THEN /\ wlog' = IF dict.map_init[pm.sub]
                        THEN Append(wlog, <<"map", pm.sub, dev.num>>)
                        ELSE wlog
            /\ pm' = [pm EXCEPT !.sub = @ + 1, !.dlc = @ + BufSize, !.nbuf = @ + 1]
       ELSE /\ wlog' = wlog
            /\ pm' = [pm EXCEPT !.pc = "com", !.sub = SUB_COM_COB_ID]
    /\ UNCHANGED <<besideMap, dict, dev>>

\* if(com_changed): one turn of the loop over the communication subs 1 .. subs,
\* storage->init on each but the COB-ID and the reserved sub
pm_com ==
    /\ pm.pc = "com"
    /\ IF pm.com_changed /\ pm.sub <= dict.com_subs
       THEN /\ wlog' = IF pm.sub = SUB_COM_COB_ID \/ pm.sub = SUB_COM_RESERVED
                        THEN wlog
                        ELSE Append(wlog, <<"com", pm.sub, dev.num>>)
            /\ pm' = [pm EXCEPT !.sub = @ + 1]
       ELSE /\ wlog' = wlog
            /\ pm' = [pm EXCEPT !.pc = "restore"]
    /\ UNCHANGED <<besideMap, dict, dev>>

\* if(map_changed) num_entry.set(map_num)
pm_restore ==
    /\ pm.pc = "restore"
    /\ IF pm.map_changed
       THEN /\ wlog' = Append(wlog, <<"num", dict.map_num, dev.num>>)
            /\ dev' = [dev EXCEPT !.num = dict.map_num]
       ELSE UNCHANGED <<wlog, dev>>
    /\ pm' = [pm EXCEPT !.pc = "enable"]
    /\ UNCHANGED <<besideMap, dict>>

\* if(com_changed || map_changed){ storage->init(COB-ID); cob_id.set(value + node id); }
pm_enable ==
    /\ pm.pc = "enable"
    /\ IF pm.com_changed \/ pm.map_changed
       THEN /\ wlog' = wlog \o <<<<"cob", "default", dev.num>>, <<"cob", "value", dev.num>>>>
            /\ dev' = [dev EXCEPT !.invalid = dict.cob_invalid]
       ELSE UNCHANGED <<wlog, dev>>
    /\ pm' = [pm EXCEPT !.pc = "done"]
    /\ UNCHANGED <<besideMap, dict>>

NextMap ==
    \/ pm_start
    \/ pm_disable
    \/ pm_clear
    \/ pm_map
    \/ pm_com
    \/ pm_restore
    \/ pm_enable

SpecMap == InitMap /\ [][NextMap]_vars

\* write i of the log disables the PDO
IsDisable(i) == wlog[i][1] = "cob" /\ wlog[i][2] = "invalid"

\* write i of the log re-initializes the COB-ID
IsEnable(i) == wlog[i][1] = "cob" /\ wlog[i][2] # "invalid"

\* write i of the log is to the mapping object: the count or a mapping sub
IsMapWrite(i) == wlog[i][1] \in {"num", "map"}

\* C17: when map_changed or com_changed holds in parse_and_set_mapping, the
\* COB-ID is written with the invalid bit before the mapping count or any
\* mapping sub is written, every mapping sub is written while the count on
\* the device is 0, and the COB-ID is re-initialized only after all mapping
\* subs, the restored count and all communication subs have been written.
C17_CobIdGating ==
    LET n == Len(wlog)
        changed == pm.map_changed \/ pm.com_changed
    IN  /\ \A i \in 1 .. n :
              (IsMapWrite(i) \/ wlog[i][1] = "com") =>
                  /\ IsDisable(1)
                  /\ \A j \in 1 .. i : ~IsEnable(j)
        /\ \A i \in 1 .. n : wlog[i][1] = "map" => wlog[i][3] = 0
        /\ (pm.pc \in {"clear", "map", "com", "restore", "enable"} /\ changed) =>
              /\ IsDisable(1)
              /\ dev.invalid
        /\ (pm.pc = "done" /\ changed) =>
              /\ IsDisable(1)
              /\ IsEnable(n - 1) /\ IsEnable(n)
              /\ dev.num = dict.map_num
              /\ \A sub \in 1 .. MaxSub :
                    (ActualMapping(dict) /\ sub <= dict.map_num /\ dict.map_init[sub]) =>
                        \E i \in 2 .. (n - 2) : wlog[i] = <<"map", sub, 0>>

\* both mapping subs and the transmission type were written between the
\* disabling and the re-initialization of the COB-ID
C17_Witness ==
    /\ pm.pc = "done"
    /\ dict.map_num = 2
    /\ dict.com_subs = 2
    /\ wlog = <<<<"cob", "invalid", 2>>, <<"num", 0, 2>>, <<"map", 1, 0>>,
                <<"map", 2, 0>>, <<"com", 2, 0>>, <<"num", 2, 0>>,
                <<"cob", "default", 2>>, <<"cob", "value", 2>>>>

----------------------------------------------------------------------------
(* PDOMapper::TPDO *)

\* after TPDO::init returned true: frame.dlc is the sum of the buffer sizes,
\* the buffers are clean (b->clean())
InitTpdo ==
    /\ StackOff
    /\ StatusOff
    /\ RpdoOff
    /\ SlotOff
    /\ MapOff
    /\ DispOff
    /\ InitOff
    /\ LockOff
    /\ empty \in [Bufs -> BOOLEAN]
    /\ dirty = [b \in Bufs |-> FALSE]
    /\ buffer = [b \in Bufs |-> NewBuffer]
    /\ tp = NoSync
    /\ frame = [dlc |-> NumBufs * BufSize, data |-> [i \in 1 .. (NumBufs * BufSize) |-> 0]]
    /\ tsent = <<>>
    /\ fresh = [b \in Bufs |-> FALSE]
    /\ tdue = FALSE
    /\ wmark = FALSE
    /\ wspan = FALSE
    /\ owed = [b \in Bufs |-> "none"]

\* the storage writes a mapped entry: Buffer::write(entry, const String &data) on
\* buffer b, the whole call, under the mutex of the buffer
tp_write(b, data) ==
    /\ tp.pc # "off"
    /\ BufSize = Len(data)
    /\ empty' = [empty EXCEPT ![b] = FALSE]
    /\ dirty' = [dirty EXCEPT ![b] = TRUE]
    /\ buffer' = [buffer EXCEPT ![b] = data]
    /\ fresh' = [fresh EXCEPT ![b] = TRUE]
    /\ wmark' = TRUE
    /\ owed' = [owed EXCEPT ![b] = "written"]
    /\ UNCHANGED <<besideTpdo, tp, frame, tsent, tdue, wspan>>

\* the storage hands a string of another size: bad_cast, the buffer is unchanged
tp_write_fault(b, data) ==
    /\ tp.pc # "off"
    /\ BufSize # Len(data)
    /\ UNCHANGED vars

\* TPDO::sync(): scoped_lock lock(mutex); updated = false; len = frame.dlc;
\* dest = frame.data
ts_begin ==
    /\ tp.pc = "idle"
    /\ tp' = [pc |-> "copy", buf |-> 1, updated |-> FALSE, len |-> frame.dlc, dest |-> 0]
    /\ tdue' = FALSE
    /\ wspan' = wmark
    /\ wmark' = FALSE
    /\ owed' = [b \in Bufs |-> IF owed[b] = "written" THEN "aged" ELSE owed[b]]
    /\ UNCHANGED <<besideTpdo, bufVars, frame, tsent, fresh>>

\* faulty variant: the flag of the buffer read last replaces the others
UpdatedLast(r, u) == r

\* updated = b.read(dest, len) || updated
Updated(r, u) == r \/ u

\* bytes i .. of the frame data replaced by the bytes of src
Memcpy(data, i, src) ==
    [k \in 1 .. Len(data) |-> IF k > i /\ k <= i + Len(src) THEN src[k - i] ELSE data[k]]

\* faulty variant: Buffer::read reports no buffer as written
ReadReportsClean(e, d) == FALSE

\* what Buffer::read(b, len) returns: false if(empty), else was_dirty
WasDirty(e, d) == ~e /\ d

\* one turn of the loop over the buffers: if(len >= b.size){ updated =
\* b.read(dest, len) || updated; len -= b.size; dest += b.size; }
ts_copy ==
    /\ tp.pc = "copy"
    /\ IF tp.buf \in Bufs
       THEN LET b == tp.buf
                r == WasDirty(empty[b], dirty[b])
            IN  IF tp.len >= BufSize
                THEN /\ frame' = IF empty[b] THEN frame
                                  ELSE [frame EXCEPT !.data = Memcpy(@, tp.dest, buffer[b])]
                     /\ dirty' = IF empty[b] THEN dirty
                                  ELSE [dirty EXCEPT ![b] = ReadClearsDirty(@)]
                     /\ tp' = [tp EXCEPT !.buf = @ + 1, !.updated = Updated(r, @),
                                          !.len = @ - BufSize, !.dest = @ + BufSize]
                     /\ tdue' = (tdue \/ fresh[b])
                     /\ fresh' = [fresh EXCEPT ![b] = FALSE]
                     /\ owed' = [owed EXCEPT ![b] = IF @ = "none" THEN @ ELSE "copied"]
                ELSE /\ tp' = [tp EXCEPT !.buf = @ + 1]
                     /\ UNCHANGED <<frame, dirty, tdue, fresh, owed>>
       ELSE /\ tp' = [tp EXCEPT !.pc = "send"]
            /\ UNCHANGED <<frame, dirty, tdue, fresh, owed>>
    /\ UNCHANGED <<besideTpdo, empty, buffer, tsent, wmark, wspan>>

\* if(updated) interface_->send(frame); the lock is released on return
ts_send ==
    /\ tp.pc = "send"
    /\ tsent' = IF tsent = <<>> THEN <<tp.updated>> ELSE <<tsent[Len(tsent)], tp.updated>>
    /\ tp' = [tp EXCEPT !.pc = "idle"]
    /\ owed' = [b \in Bufs |-> IF tp.updated /\ owed[b] = "copied" THEN "none" ELSE owed[b]]
    /\ UNCHANGED <<besideTpdo, bufVars, frame, fresh, tdue, wmark, wspan>>

NextTpdo ==
    \/ \E b \in Bufs, data \in Strings : tp_write(b, data)
    \/ \E b \in Bufs, data \in Strings : tp_write_fault(b, data)
    \/ ts_begin
    \/ ts_copy
    \/ ts_send

SpecTpdo == InitTpdo /\ [][NextTpdo]_vars

\* TPDO::sync has returned and no other has begun
SyncDone == tp.pc = "idle" /\ tsent # <<>>

\* C18: a TPDO::sync sends its frame, once, exactly when one of the buffers it
\* copied had been written since a sync last copied it; two consecutive syncs
\* with no buffer write from the begin of the first on send at most one frame.
C18_SendWhenDirty ==
    /\ SyncDone => tsent[Len(tsent)] = tdue
    /\ tp.pc = "send" => tp.updated = tdue
    /\ \A b \in Bufs : (~empty[b] /\ dirty[b]) = fresh[b]
    /\ (SyncDone /\ Len(tsent) = 2 /\ ~wspan /\ ~wmark) => ~(tsent[1] /\ tsent[2])

\* the first buffer was written, the second was not: the sync sent the frame
\* with the written byte; the sync before it sent nothing
C18_Witness ==
    /\ SyncDone
    /\ tsent = <<FALSE, TRUE>>
    /\ frame.data[1] = 1
    /\ ~dirty[1]
    /\ empty[NumBufs]

----------------------------------------------------------------------------
(* LayerGroup: the children are siblings, every range is begin() .. end() *)

\* operations whose first pass is call<Warn> with the returned iterator kept
GroupChecked == {"read", "write", "init", "recover"}

\* what the group applies to its children after a fault: shutdown for init,
\* halt otherwise
GroupFail(o) == IF o = "init" THEN "shutdown" ELSE "halt"

\* faulty variant: every checked operation goes on after the fault
GroupAlwaysContinues(o) == TRUE

\* operations that go on with the children after the failing one
GroupContinues(o) == o \in {"read", "write"}

\* pending, read, write, init, recover: call<Warn>(func, status, begin(), end())
g_first(o, s0) ==
    /\ o \in GroupChecked \cup {"pending"}
    /\ Enter("ctl", o, s0)
    /\ lend' = [lend EXCEPT !["ctl"] = End]
    /\ fr' = [fr EXCEPT !["ctl"] =
                CallFrame(o, WARN, "status", Entry(s0), Begin, End, FALSE,
                          IF o \in GroupChecked THEN "g_check" ELSE "ret",
                          o \in GroupChecked)]
    /\ pc' = [pc EXCEPT !["ctl"] = "call"]
    /\ UNCHANGED <<besideStack, conc, nlayers, run_end_, segv, up, inited, down, omit, it, fst>>

\* shutdown, halt, diag: call(func, status, begin(), end())
g_all(o, s0) ==
    /\ o \in {"shutdown", "halt", "diag"}
    /\ Enter("ctl", o, s0)
    /\ lend' = [lend EXCEPT !["ctl"] = End]
    /\ fr' = [fr EXCEPT !["ctl"] =
                CallFrame(o, UNBOUNDED, "status", Entry(s0), Begin, End, FALSE, "ret", FALSE)]
    /\ pc' = [pc EXCEPT !["ctl"] = "call"]
    /\ UNCHANGED <<besideStack, conc, nlayers, run_end_, segv, up, inited, down, omit, it, fst>>

\* if(it != end()){ LayerStatus omit; call(halt or shutdown, omit, begin(), end());
g_check(t) ==
    /\ ~segv
    /\ pc[t] = "g_check"
    /\ IF it[t] # End
       THEN /\ omit' = [omit EXCEPT ![t] = LayerStatus]
            /\ fst' = [fst EXCEPT ![t] = status[t]]
            /\ fr' = [fr EXCEPT ![t] =
                        CallFrame(GroupFail(op[t]), UNBOUNDED, "omit", LayerStatus, Begin,
                                  End, FALSE,
                                  IF GroupContinues(op[t]) THEN "g_rest" ELSE "ret", FALSE)]
            /\ pc' = [pc EXCEPT ![t] = "call"]
       ELSE /\ UNCHANGED <<omit, fst, fr>>
            /\ pc' = [pc EXCEPT ![t] = "ret"]
    /\ UNCHANGED <<besideStack, conc, nlayers, run_end_, segv, up, inited, down, op, status, status0,
                   it, lend, log, entDown>>

\* omit.error(); call(func, omit, it+1, end()); }
g_rest(t) ==
    /\ ~segv
    /\ pc[t] = "g_rest"
    /\ omit' = [omit EXCEPT ![t] = error(@, <<>>)]
    /\ fr' = [fr EXCEPT ![t] =
                CallFrame(op[t], UNBOUNDED, "omit", omit'[t], it[t] + 1, End, FALSE,
                          "ret", FALSE)]
    /\ pc' = [pc EXCEPT ![t] = "call"]
    /\ UNCHANGED <<besideStack, conc, nlayers, run_end_, segv, up, inited, down, op, status, status0,
                   it, lend, log, fst, entDown>>

NextGroup ==
    \/ \E o \in GroupChecked \cup {"pending"}, s0 \in EntryStates : g_first(o, s0)
    \/ \E o \in {"shutdown", "halt", "diag"}, s0 \in EntryStates : g_all(o, s0)
    \/ call_end("ctl")
    \/ call_invoke("ctl")
    \/ g_check("ctl")
    \/ g_rest("ctl")
    \/ Return("ctl")

SpecGroup == Init /\ [][NextGroup]_vars

\* the children, in vector order
AllChildren == Up(0, nlayers - 1)

\* the group operation o has returned
GroupRet(o) == AtRet("ctl", o)

\* the first pass of a checked operation stopped at a child
GroupFaulted == op["ctl"] \in GroupChecked /\ pc["ctl"] = "ret" /\ it["ctl"] # End

\* the calls after a fault at child k, had the operation gone on with the rest
FaultTrail(o, k) ==
    Calls(o, Up(0, k)) \o Calls(GroupFail(o), AllChildren) \o Calls(o, Up(k + 1, nlayers - 1))

\* C19 as stated: every lifecycle operation of a group visits all children, and
\* after a fault in read, write, init or recover the group halts (init: shuts
\* down) the children and goes on with the operation on the remaining ones.
C19_VisitsAllAndContinues ==
    /\ \A o \in GroupChecked \cup {"pending", "halt", "shutdown"} :
          GroupRet(o) => \A c \in Children : <<o, c>> \in {log["ctl"][i] : i \in 1 .. Len(log["ctl"])}
    /\ GroupFaulted => log["ctl"] = FaultTrail(op["ctl"], it["ctl"])

\* C19: halt, shutdown and diag visit all children; a checked operation detects a
\* fault exactly when it was entered at most at Warn and a child raised the
\* status above Warn; without a fault it visits all children; after a fault at
\* child k read and write halt every child on a fresh status and go on with the
\* children after k on an errored throwaway status, init and recover shut down
\* (halt) every child and do not go on; pending stops at the first child that
\* raises the status above Warn.
C19_GroupFaultPolicy ==
    /\ \A o \in {"halt", "shutdown", "diag"} :
          GroupRet(o) => log["ctl"] = Calls(o, AllChildren)
    /\ \A o \in GroupChecked : GroupRet(o) =>
          /\ (it["ctl"] # End) = (bounded(status0["ctl"], WARN) /\ ~bounded(status["ctl"], WARN))
          /\ it["ctl"] = End => log["ctl"] = Calls(o, AllChildren)
          /\ (it["ctl"] # End /\ o \in {"read", "write"}) =>
                /\ log["ctl"] = FaultTrail(o, it["ctl"])
                /\ omit["ctl"].state = ERROR
          /\ (it["ctl"] # End /\ o \in {"init", "recover"}) =>
                log["ctl"] = Calls(o, Up(0, it["ctl"])) \o Calls(GroupFail(o), AllChildren)
    /\ op["ctl"] = "pending" =>
          /\ log["ctl"] = Calls("pending", Up(0, Len(log["ctl"]) - 1))
          /\ (pc["ctl"] = "call" /\ bounded(status0["ctl"], WARN)) => bounded(status["ctl"], WARN)
          /\ pc["ctl"] = "ret" =>
                \/ Len(log["ctl"]) = nlayers
                \/ bounded(status0["ctl"], WARN) /\ ~bounded(status["ctl"], WARN)

\* init of a group of two failed at the first child: both were shut down, the
\* second was never initialised
C19_Witness ==
    /\ GroupRet("init")
    /\ nlayers = 2
    /\ log["ctl"] = <<<<"init", 0>>, <<"shutdown", 0>>, <<"shutdown", 1>>>>

----------------------------------------------------------------------------
(* FilteredDispatcher and the listener of an RPDO *)

\* width of the id field of a header (29 in PDOid and can::Header)
IdBits == 2

\* frames dispatched in a run
MaxFrames == 3

\* max_id of the dispatcher test: ids 0 .. max_id - 1
max_id == 2 ^ IdBits

\* can::Header(id, extended, rtr, error)
Header(id, extended, rtr, err) ==
    [id |-> id, is_extended |-> extended, is_rtr |-> rtr, is_error |-> err]

\* can::MsgHeader(id): a standard data frame
MsgHeader(id) == Header(id, FALSE, FALSE, FALSE)

\* headers of the frames on the bus
BusHeaders == {Header(i, e, r, FALSE) : i \in 0 .. (max_id - 1), e \in BOOLEAN, r \in BOOLEAN}

\* 32-bit COB-ID values: id, extended, no_rtr, invalid from the low bit up
CobIds == 0 .. (2 ^ (IdBits + 3) - 1)

\* the bit fields of PDOid
PDOid(val) ==
    [id |-> val % (2 ^ IdBits),
     extended |-> (val \div (2 ^ IdBits)) % 2,
     no_rtr |-> (val \div (2 ^ (IdBits + 1))) % 2,
     invalid |-> (val \div (2 ^ (IdBits + 2))) % 2]

\* PDOid::header(): can::Header(id, extended, false, false)
PDOheader(val) == Header(PDOid(val).id, PDOid(val).extended = 1, FALSE, FALSE)

\* the listeners registered: those of the test, created in the order of its loop
\* (even ids for counter1, odd ids for counter2), and the listener of the RPDO
Listeners ==
    {[key |-> MsgHeader(i), tgt |-> IF i % 2 = 0 THEN "counter1" ELSE "counter2"] :
        i \in 0 .. (nreg - 1)}
    \cup (IF listener_ = NoHeader THEN {} ELSE {[key |-> listener_, tgt |-> "rpdo"]})

InitDisp ==
    /\ StackOff
    /\ StatusOff
    /\ BuffersOff
    /\ RpdoOff
    /\ SlotOff
    /\ MapOff
    /\ TpdoOff
    /\ InitOff
    /\ LockOff
    /\ nreg = 0
    /\ listener_ = NoHeader
    /\ rcob \in CobIds
    /\ rnobuf \in BOOLEAN
    /\ counter = [t \in Targets |-> 0]
    /\ ndisp = 0
    /\ expect = [t \in Targets |-> 0]
    /\ plain = TRUE
    /\ rlast = NoHeader

\* dispatcher.createListener(MsgHeader(i), delegate): the next listener of the test
d_create ==
    /\ nreg >= 0
    /\ nreg < max_id
    /\ nreg' = nreg + 1
    /\ UNCHANGED <<besideDisp, listener_, rcob, rnobuf, counter, ndisp, expect, plain, rlast>>

\* RPDO::init: listener_.reset(); return false if there is no buffer or the
\* COB-ID is invalid; else listener_ = createMsgListener(pdoid.header(), handleFrame)
rp_init ==
    /\ nreg >= 0
    /\ listener_' = IF rnobuf \/ PDOid(rcob).invalid = 1 THEN NoHeader ELSE PDOheader(rcob)
    /\ UNCHANGED <<besideDisp, nreg, rcob, rnobuf, counter, ndisp, expect, plain, rlast>>

\* faulty variant: the listeners are filtered on the id alone
MatchesId(key, h) == key.id = h.id

\* the filter of the dispatcher: the listener's header is the frame's header
Matches(key, h) == key = h

\* dispatcher.dispatch(Frame(h)): every listener the filter selects is handed the frame
d_dispatch(h) ==
    /\ nreg >= 0
    /\ ndisp < MaxFrames
    /\ LET hit == {l \in Listeners : Matches(l.key, h)}
           due == {l \in Listeners : l.key = h}
       IN  /\ counter' = [t \in Targets |-> counter[t] + Cardinality({l \in hit : l.tgt = t})]
           /\ expect' = [t \in Targets |-> expect[t] + Cardinality({l \in due : l.tgt = t})]
           /\ plain' = (plain /\ Cardinality(due) = 1)
           /\ rlast' = IF \E l \in hit : l.tgt = "rpdo" THEN h ELSE rlast
    /\ ndisp' = ndisp + 1
    /\ UNCHANGED <<besideDisp, nreg, listener_, rcob, rnobuf>>

NextDisp ==
    \/ d_create
    \/ rp_init
    \/ \E h \in BusHeaders : d_dispatch(h)

SpecDisp == InitDisp /\ [][NextDisp]_vars

\* C20: every delegate was handed exactly the frames dispatched with the header
\* of one of its listeners, once per listener; when each frame had one listener
\* on its header the counters sum to the number of frames dispatched; a frame
\* handed to RPDO::handleFrame has the id and the extended flag of the COB-ID of
\* the RPDO and is neither a remote nor an error frame.
C20_FilteredDispatch ==
    /\ \A t \in Targets : counter[t] = expect[t]
    /\ plain => counter["counter1"] + counter["counter2"] + counter["rpdo"] = ndisp
    /\ rlast # NoHeader =>
          /\ rlast.id = rcob % (2 ^ IdBits)
          /\ rlast.is_extended = ((rcob \div (2 ^ IdBits)) % 2 = 1)
          /\ ~rlast.is_rtr
          /\ ~rlast.is_error

\* three frames, one for each counter and an extended one for the RPDO, which
\* shares its id with a listener of counter1
C20_Witness ==
    /\ plain
    /\ counter = [t \in Targets |-> 1]
    /\ rlast = Header(0, TRUE, FALSE, FALSE)
    /\ nreg = max_id

----------------------------------------------------------------------------
(* faults and the layers above; shutdown and halt *)

\* children halt was invoked on in the cycle of thread t
HaltedBy(t) == {c \in Children : <<"halt", c>> \in {log[t][i] : i \in 1 .. Len(log[t])}}

\* C21: when read returns after child k raised the status above Warn, halt
\* has been invoked on every child above k, up to the last child of the stack.
C21_FaultHaltsHigher ==
    (ReadFaulted /\ pc["cyc"] = "ret") =>
        /\ ~bounded(status["cyc"], WARN)
        /\ \A c \in Children : c > it["cyc"] => c \in HaltedBy("cyc")

\* read over the live prefix {A} of [A, B, C] failed at A: B and C, which are
\* not in the live prefix, were halted
C21_Witness ==
    /\ ReadFaulted
    /\ pc["cyc"] = "ret"
    /\ nlayers = 3
    /\ lend["cyc"] = 1
    /\ it["cyc"] = 0
    /\ {1, 2} \subseteq HaltedBy("cyc")

\* C22: shutdown and halt have, on return, invoked the operation once on every
\* child of the stack, from the last to the first, whatever run_end_ is and
\* whatever the children raised; no step of halt changes run_end_.
C22_TeardownVisitsAll ==
    /\ [](\A o \in {"shutdown", "halt"} :
            AtRet("ctl", o) => log["ctl"] = Calls(o, Down(nlayers - 1, 0)))
    /\ [][(op["ctl"] = "halt" \/ op'["ctl"] = "halt") => run_end_' = run_end_]_vars

\* halt of [A, B, C] with the live prefix {A}: C raised an error, B and A were
\* halted all the same, run_end_ is where it was
C22_Witness ==
    /\ AtRet("ctl", "halt")
    /\ nlayers = 3
    /\ run_end_ = 1
    /\ status0["ctl"].state = OK
    /\ status["ctl"].reason = <<"C">>
    /\ status["ctl"].state = ERROR
    /\ log["ctl"] = <<<<"halt", 2>>, <<"halt", 1>>, <<"halt", 0>>>>

----------------------------------------------------------------------------
(* com_changed *)

\* a sub 0 .. 6 of the communication object carries an init_val
ComHasInit(d) == \E sub \in 0 .. LastComSub : sub \in DOMAIN d.com_init /\ d.com_init[sub]

\* no sub of the mapping object carries an init_val
MapHasNoInit(d) == \A sub \in DOMAIN d.map_init : ~d.map_init[sub]

\* C23: com_changed is true exactly when a sub 0 .. 6 of the communication
\* object carries an init_val; a PDO with init values on its communication
\* object and none on its mapping object is disabled and has its communication
\* subs default-initialized.
C23_ComChanged ==
    /\ pm.pc \notin {"off", "start"} => pm.com_changed = ComHasInit(dict)
    /\ (pm.pc = "done" /\ ComHasInit(dict) /\ MapHasNoInit(dict)
          /\ dict.map_num <= MaxMapNum) =>
          /\ wlog # <<>>
          /\ IsDisable(1)
          /\ \E i \in 1 .. Len(wlog) : wlog[i][1] = "com"

----------------------------------------------------------------------------
(* the timeout of an RPDO after a frame *)

\* syncs a handled frame keeps the timeout warning away for
Window(tt) == IF tt = SyncRtrType THEN RtrTimeout ELSE tt + 2

\* C24: after a handled frame the timeout is transmission_type + 2 for the
\* types 1 .. 240 and 3 for the RTR types 0xFC and 0xFD; for every cyclic type
\* none of the syncs of the window after a handled frame raises the timeout
\* warning.
C24_FrameRearmsTimeout ==
    /\ (framed /\ since = 0) =>
          /\ transmission_type \in 1 .. LastCyclicType => timeout = transmission_type + 2
          /\ transmission_type \in {SyncRtrType, AsyncRtrType} => timeout = RtrTimeout
    /\ (framed /\ Cyclic(transmission_type) /\ since \in 1 .. Window(transmission_type)) =>
          ~TimedOut(rstatus)

----------------------------------------------------------------------------
(* RPDO::init and TPDO::init: the buffers and frame.dlc *)

\* mapping entries of a PDO in a run
MaxEntries == 3

\* largest dlc of a frame
MaxDlc == 8

\* sizes of mapped objects in bytes: param.length/8
EntrySizes == {1, 4, 8}

\* the mappings in the dictionary: the sizes of the entries 1 .. map_num
Mappings == UNION {[1 .. n -> EntrySizes] : n \in 0 .. MaxEntries}

RECURSIVE SumSizes(_)
SumSizes(q) == IF q = <<>> THEN 0 ELSE Head(q) + SumSizes(Tail(q))

\* a PDO fresh from create, about to be initialised; the build has assert
\* compiled in or out (NDEBUG)
InitPdoInit ==
    /\ StackOff
    /\ StatusOff
    /\ BuffersOff
    /\ RpdoOff
    /\ SlotOff
    /\ MapOff
    /\ TpdoOff
    /\ DispOff
    /\ LockOff
    /\ \E k \in {"rpdo", "tpdo"}, m \in Mappings, inv \in BOOLEAN, nd \in BOOLEAN :
          pi = [NoInit EXCEPT !.pc = "begin", !.kind = k, !.sizes = m, !.invalid = inv,
                              !.ndebug = nd]

\* RPDO::init: listener_.reset(); TPDO::init: frame = pdoid.header(); then
\* parse_and_set_mapping up to the loop: if(map_num > 0 && map_num <= 0x40) frame.dlc = 0
pi_begin ==
    /\ pi.pc = "begin"
    /\ pi' = [pi EXCEPT !.pc = IF Len(pi.sizes) > 0 THEN "map" ELSE "check", !.sub = 1,
                         !.dlc = 0]
    /\ UNCHANGED besideInit

\* frame.dlc += b->size
DlcAdd(dlc, size) == dlc + size

\* one turn of the loop: a Buffer of param.length/8 bytes; frame.dlc += b->size;
\* assert( frame.dlc <= 8 ); b->clean(); buffers.push_back(b)
pi_map ==
    /\ pi.pc = "map"
    /\ IF pi.sub <= Len(pi.sizes)
       THEN LET d == DlcAdd(pi.dlc, pi.sizes[pi.sub])
            IN  IF d > MaxDlc /\ ~pi.ndebug
                THEN pi' = [pi EXCEPT !.pc = "abort", !.dlc = d]
                ELSE pi' = [pi EXCEPT !.sub = @ + 1, !.dlc = d,
                                      !.bufs = Append(@, pi.sizes[pi.sub])]
       ELSE pi' = [pi EXCEPT !.pc = "check"]
    /\ UNCHANGED besideInit

\* if(buffers.empty() || pdoid.invalid) return false; ... return true
pi_check ==
    /\ pi.pc = "check"
    /\ pi' = [pi EXCEPT !.pc = "done", !.ret = ~(pi.bufs = <<>> \/ pi.invalid)]
    /\ UNCHANGED besideInit

NextPdoInit ==
    \/ pi_begin
    \/ pi_map
    \/ pi_check

SpecPdoInit == InitPdoInit /\ [][NextPdoInit]_vars

\* C25: a PDO whose init returned true has frame.dlc equal to the sum of the
\* sizes of its buffers and at most 8; the init of a PDO whose mapping entries
\* total more than 8 bytes returns false.
C25_DlcBound ==
    /\ (pi.pc = "done" /\ pi.ret) =>
          /\ pi.dlc = SumSizes(pi.bufs)
          /\ pi.dlc <= MaxDlc
    /\ (pi.pc \in {"abort", "done"} /\ SumSizes(pi.sizes) > MaxDlc) =>
          /\ pi.pc = "done"
          /\ ~pi.ret

----------------------------------------------------------------------------
(* cycles entered with a status above Warn *)

\* thread cyc is in a read or write that was entered above Warn
EnteredAboveWarn ==
    /\ op["cyc"] \in {"read", "write"}
    /\ ~bounded(status0["cyc"], WARN)

\* C26: a read or write entered with a status above Warn takes no fault
\* branch: no halt is invoked and every child call is handed the caller's
\* status; on return the operation has been invoked once on every child of the
\* live prefix, read in forward and write in reverse order.
C26_EnteredAboveWarn ==
    EnteredAboveWarn =>
        LET e == Idx(run_end_)
        IN  /\ CallsOf("halt", log["cyc"]) = <<>>
            /\ pc["cyc"] \notin {"read_rest", "write_rest"}
            /\ fr["cyc"].tgt = "status"
            /\ omit["cyc"] = LayerStatus
            /\ ~bounded(status["cyc"], WARN)
            /\ AtRet("cyc", "read") => log["cyc"] = Calls("read", Up(0, e - 1))
            /\ AtRet("cyc", "write") => log["cyc"] = Calls("write", Down(e - 1, 0))

\* a read of [A, B, C] entered with an error: B raised another one, which is
\* in the caller's status, and C was read as usual
C26_Witness ==
    /\ EnteredAboveWarn
    /\ AtRet("cyc", "read")
    /\ nlayers = 3
    /\ status0["cyc"].state = ERROR
    /\ status["cyc"].reason = <<"B">>
    /\ log["cyc"] = <<<<"read", 0>>, <<"read", 1>>, <<"read", 2>>>>

----------------------------------------------------------------------------
(* writes to the buffers of a TPDO and its syncs *)

\* the bytes of buffer b in the frame
FramePart(b) == SubSeq(frame.data, (b - 1) * BufSize + 1, b * BufSize)

\* the sync in progress has passed buffer b
Passed(b) == tp.pc = "send" \/ (tp.pc = "copy" /\ tp.buf > b)

\* C27: a written buffer stays flagged until a sync copies it; a sync that has
\* passed a buffer has copied every write to it that was made before the sync
\* began or before it came to the buffer; the frame about to be sent holds the
\* bytes of each copied write; a sync that copied a write sends the frame, so
\* when it has returned no copied write is left unsent.
C27_NoLostWrite ==
    \A b \in Bufs :
        /\ owed[b] \in {"written", "aged"} => (dirty[b] /\ ~empty[b])
        /\ Passed(b) => owed[b] # "aged"
        /\ (tp.pc = "send" /\ owed[b] = "copied") =>
              /\ tp.updated
              /\ FramePart(b) = buffer[b]
        /\ tp.pc = "idle" => owed[b] \in {"none", "written"}

\* the second buffer was written while the sync was at the first and is sent
\* by that sync; the first was written after the sync had passed it and waits,
\* flagged, for the next
C27_Witness ==
    /\ tp.pc = "idle"
    /\ tsent = <<TRUE>>
    /\ owed[1] = "written"
    /\ owed[NumBufs] = "none"
    /\ dirty[1]
    /\ buffer[NumBufs] = [i \in 1 .. BufSize |-> 1]
    /\ FramePart(NumBufs) = buffer[NumBufs]
    /\ FramePart(1) # buffer[1]

----------------------------------------------------------------------------
(* the mutexes of the PDO subsystem *)

\* steps of an operation as far as the mutexes go
Lock(m) == [k |-> "lock", m |-> m]

Unlock(m) == [k |-> "unlock", m |-> m]

\* while(empty) cond.wait_until(lock, abs_time) on the cond of the buffer of m
Wait(m) == [k |-> "wait", m |-> m]

\* empty = false under the mutex m
Fill(m) == [k |-> "fill", m |-> m]

\* interface_->send(frame)
Send == [k |-> "send", m |-> "none"]

\* PDOMapper::read: scoped_lock(mutex_); RPDO::sync: scoped_lock(mutex), send
MapperRead == <<Lock("mapper"), Lock("rpdo"), Send, Unlock("rpdo"), Unlock("mapper")>>

\* PDOMapper::write: scoped_lock(mutex_); TPDO::sync: scoped_lock(mutex),
\* Buffer::read(dest, len) under the Buffer mutex, send
MapperWrite ==
    <<Lock("mapper"), Lock("tpdo"), Lock("tbuf"), Unlock("tbuf"), Send, Unlock("tpdo"),
      Unlock("mapper")>>

\* faulty variant: the timeout is set while the Buffer mutex is still held
HandleFrameHoldsBuffer ==
    <<Lock("rbuf"), Fill("rbuf"), Lock("rpdo"), Unlock("rpdo"), Unlock("rbuf")>>

\* RPDO::handleFrame: Buffer::write(src, size) under the Buffer mutex, then the
\* timeout under the PDO mutex
HandleFrameLocks ==
    <<Lock("rbuf"), Fill("rbuf"), Unlock("rbuf"), Lock("rpdo"), Unlock("rpdo")>>

\* Buffer::read(entry, String&) on the buffer of the RPDO
StoreRead == <<Lock("rbuf"), Wait("rbuf"), Unlock("rbuf")>>

\* Buffer::write(entry, const String&) on the buffer of m
StoreWrite(m) == <<Lock(m), Fill(m), Unlock(m)>>

\* the operations each thread calls
Programs(t) ==
    IF t = "driver" THEN {MapperRead, MapperWrite}
    ELSE IF t = "recv" THEN {HandleFrameLocks}
    ELSE {StoreRead, StoreWrite("rbuf"), StoreWrite("tbuf")}

InitLock ==
    /\ StackOff
    /\ StatusOff
    /\ BuffersOff
    /\ RpdoOff
    /\ SlotOff
    /\ MapOff
    /\ TpdoOff
    /\ DispOff
    /\ InitOff
    /\ lk = [m \in Mutexes |-> "free"]
    /\ lth = [t \in LockThreads |-> [NoOp EXCEPT !.i = 1]]
    /\ lempty \in BOOLEAN

\* the step thread t is at
Instr(t) == lth[t].prog[lth[t].i]

InOp(t) == lth[t].i \in 1 .. Len(lth[t].prog)

\* thread t calls an operation
l_start(t, prog) ==
    /\ lth[t] = [NoOp EXCEPT !.i = 1]
    /\ lth' = [lth EXCEPT ![t] = [prog |-> prog, i |-> 1, waiting |-> FALSE]]
    /\ UNCHANGED <<besideLock, lk, lempty>>

\* boost::mutex::scoped_lock lock(m): blocks until m is free
l_lock(t) ==
    /\ InOp(t)
    /\ Instr(t).k = "lock"
    /\ lk[Instr(t).m] = "free"
    /\ lk' = [lk EXCEPT ![Instr(t).m] = t]
    /\ lth' = [lth EXCEPT ![t].i = @ + 1]
    /\ UNCHANGED <<besideLock, lempty>>

\* the scoped_lock goes out of scope
l_unlock(t) ==
    /\ InOp(t)
    /\ Instr(t).k = "unlock"
    /\ lk' = [lk EXCEPT ![Instr(t).m] = "free"]
    /\ lth' = [lth EXCEPT ![t].i = @ + 1]
    /\ UNCHANGED <<besideLock, lempty>>

\* a step under the mutexes held: the buffer is filled, the frame is sent
l_step(t) ==
    /\ InOp(t)
    /\ Instr(t).k \in {"fill", "send"}
    /\ lempty' = IF Instr(t).k = "fill" /\ Instr(t).m = "rbuf" THEN FALSE ELSE lempty
    /\ lth' = [lth EXCEPT ![t].i = @ + 1]
    /\ UNCHANGED <<besideLock, lk>>

\* while(empty) cond.wait_until(lock, abs_time): the wait releases the mutex
l_wait(t) ==
    /\ InOp(t)
    /\ Instr(t).k = "wait"
    /\ ~lth[t].waiting
    /\ IF lempty
       THEN /\ lk' = [lk EXCEPT ![Instr(t).m] = "free"]
            /\ lth' = [lth EXCEPT ![t].waiting = TRUE]
       ELSE /\ lk' = lk
            /\ lth' = [lth EXCEPT ![t].i = @ + 1]
    /\ UNCHANGED <<besideLock, lempty>>

\* wait_until returns with the mutex held again: on a timeout the read throws,
\* else the loop tests empty again
l_wake(t, timedout) ==
    /\ InOp(t)
    /\ lth[t].waiting
    /\ lk[Instr(t).m] = "free"
    /\ lk' = [lk EXCEPT ![Instr(t).m] = t]
    /\ lth' = [lth EXCEPT ![t].waiting = FALSE, ![t].i = IF timedout THEN @ + 1 ELSE @]
    /\ UNCHANGED <<besideLock, lempty>>

\* the operation returns
l_return(t) ==
    /\ lth[t].prog # <<>>
    /\ lth[t].i = Len(lth[t].prog) + 1
    /\ lth' = [lth EXCEPT ![t] = [NoOp EXCEPT !.i = 1]]
    /\ UNCHANGED <<besideLock, lk, lempty>>

NextLock ==
    \/ \E t \in LockThreads : \E prog \in Programs(t) : l_start(t, prog)
    \/ \E t \in LockThreads : l_lock(t)
    \/ \E t \in LockThreads : l_unlock(t)
    \/ \E t \in LockThreads : l_step(t)
    \/ \E t \in LockThreads : l_wait(t)
    \/ \E t \in LockThreads, timedout \in BOOLEAN : l_wake(t, timedout)
    \/ \E t \in LockThreads : l_return(t)

SpecLock == InitLock /\ [][NextLock]_vars

\* thread t needs a mutex to go on: it is at a lock, or in the wait of the cond
Wants(t) == InOp(t) /\ (Instr(t).k = "lock" \/ lth[t].waiting)

\* thread t needs a mutex that is held
Blocked(t) == Wants(t) /\ lk[Instr(t).m] # "free"

\* a set of threads each of which needs a mutex held by one of the set
Deadlocked(S) == S # {} /\ \A t \in S : Blocked(t) /\ lk[Instr(t).m] \in S

\* PDOMapper mutex, then PDO mutex, then Buffer mutex
Rank(m) == IF m = "mapper" THEN 1 ELSE IF m \in {"rpdo", "tpdo"} THEN 2 ELSE 3

Held(t) == {m \in Mutexes : lk[m] = t}

\* C28: every thread takes a mutex only while it holds none of the same or a
\* later rank (PDOMapper mutex, PDO mutex, Buffer mutex); a thread in the wait
\* of the blocking read does not hold the Buffer mutex; no set of threads is
\* such that each waits for a mutex held by another of the set.
C28_LockOrder ==
    /\ \A t \in LockThreads :
          /\ (InOp(t) /\ Instr(t).k = "lock") =>
                \A m \in Held(t) : Rank(m) < Rank(Instr(t).m)
          /\ (InOp(t) /\ lth[t].waiting) => Held(t) = {}
    /\ \A S \in SUBSET LockThreads : ~Deadlocked(S)

\* the driver, in PDOMapper::write, holds the mapper and the TPDO mutex and
\* waits for the Buffer mutex, held by a write of the storage, while the
\* receive thread sets the timeout under the RPDO mutex
C28_Witness ==
    /\ lk = [m \in Mutexes |-> IF m \in {"mapper", "tpdo"} THEN "driver"
                               ELSE IF m = "tbuf" THEN "store"
                               ELSE IF m = "rpdo" THEN "recv" ELSE "free"]
    /\ Blocked("driver")
    /\ ~Blocked("store")
    /\ ~Blocked("recv")

====
